---- MODULE Spec2Model ----
(***************************************************************************)
(* A model of the Validator mixin (laravel-like-vue-validator): the        *)
(* registration table, the error tree and the check engine, translated     *)
(* from the mixin's methods.                                               *)
(*                                                                         *)
(* Conventions.  A JavaScript string that the code splits, joins or parses *)
(* is a sequence of one-character strings, so that split('.'), parseInt    *)
(* and parseFloat are computed and not assumed.  Error messages are never  *)
(* taken apart by the code and are plain strings.  A JavaScript value is a *)
(* record tagged by its type.  An object of the error tree is a map from   *)
(* the paths of its leaves (sequences of segments) to the leaf strings.    *)
(***************************************************************************)
EXTENDS Integers, Sequences, FiniteSets, TLC

VARIABLES
    data,       \* the component's own data: root name -> value
    vars_,      \* validator_.vars: root name -> [rules, isArray, keys]
    rootOrder,  \* the insertion order of the keys of validator_.vars
    errMsg,     \* validator_.errMsg: <<path, rule>> -> message
    errors,     \* this.errors: root name -> error node
    watching,   \* validator_.watching: the paths that hold an unwatch handle
    watchers,   \* the paths of the live $watch observers, in creation order
    pending,    \* the paths of the observers whose callback is queued
    last        \* the last call made: its name, argument, result and fault

vars == <<data, vars_, rootOrder, errMsg, errors, watching, watchers, pending, last>>

-----------------------------------------------------------------------------
(* Strings *)

Digits == {"0", "1", "2", "3", "4", "5", "6", "7", "8", "9"}

DigitVal ==
    ("0" :> 0) @@ ("1" :> 1) @@ ("2" :> 2) @@ ("3" :> 3) @@ ("4" :> 4) @@
    ("5" :> 5) @@ ("6" :> 6) @@ ("7" :> 7) @@ ("8" :> 8) @@ ("9" :> 9)

Letters == {"a", "b", "c", "d", "e", "f", "g", "h", "i", "j", "k", "l", "m",
            "n", "o", "p", "q", "r", "s", "t", "u", "v", "w", "x", "y", "z"}

RECURSIVE splitFrom(_, _, _, _)
splitFrom(s, d, i, cur) ==
    IF i > Len(s) THEN <<cur>>
    ELSE IF s[i] = d THEN <<cur>> \o splitFrom(s, d, i + 1, <<>>)
    ELSE splitFrom(s, d, i + 1, Append(cur, s[i]))

\* String.prototype.split with a one-character separator
split(s, d) == splitFrom(s, d, 1, <<>>)

RECURSIVE join(_, _)
\* Array.prototype.join
join(parts, d) ==
    IF Len(parts) = 0 THEN <<>>
    ELSE IF Len(parts) = 1 THEN parts[1]
    ELSE parts[1] \o <<d>> \o join(Tail(parts), d)

\* Array.prototype.slice(n) on a 0-based array
slice(a, n) == SubSeq(a, n + 1, Len(a))

\* Array.prototype.indexOf: the 0-based position of the first element that
\* is strictly equal to x, -1 when there is none
indexOf(a, x) ==
    IF \E i \in 1..Len(a) : a[i] = x
    THEN (CHOOSE i \in 1..Len(a) : a[i] = x /\ \A j \in 1..(i - 1) : a[j] # x) - 1
    ELSE -1

RECURSIVE digitsValue(_, _, _)
\* the value of the longest run of digits of s from position i on, acc so far
digitsValue(s, i, acc) ==
    IF i > Len(s) \/ s[i] \notin Digits THEN acc
    ELSE digitsValue(s, i + 1, 10 * acc + DigitVal[s[i]])

NaN == [n |-> 0, nan |-> TRUE]

\* parseInt / parseFloat on a string without '.', exponent or white space:
\* an optional sign, then the longest run of digits; NaN when there is no digit
parseNumber(s) ==
    LET signed == Len(s) > 0 /\ s[1] \in {"-", "+"}
        first  == IF signed THEN 2 ELSE 1
        mag    == digitsValue(s, first, 0)
    IN  IF first > Len(s) \/ s[first] \notin Digits THEN NaN
        ELSE [nan |-> FALSE, n |-> IF signed /\ s[1] = "-" THEN 0 - mag ELSE mag]

parseInt(s) == parseNumber(s)

parseFloat(s) == parseNumber(s)

\* the truthiness of a number: NaN and 0 are falsy
truthy(num) == ~num.nan /\ num.n # 0

\* whether the whole of s is a number literal (what Number(s) accepts)
isNumeric(s) ==
    LET signed == Len(s) > 0 /\ s[1] \in {"-", "+"}
        first  == IF signed THEN 2 ELSE 1
    IN  first <= Len(s) /\ \A i \in first..Len(s) : s[i] \in Digits

-----------------------------------------------------------------------------
(* Values *)

Num(n) == [n |-> n, t |-> "number"]

Str(s) == [s |-> s, t |-> "string"]

Bool(b) == [t |-> "boolean", b |-> b]

Undefined == [t |-> "undefined"]

Null == [t |-> "null"]

\* a plain object: o maps each own key (a segment) to its value
Obj(o) == [t |-> "object", o |-> o]

Arr(a) == [a |-> a, t |-> "array"]

EmptyMap == [k \in {} |-> ""]

\* the typeof operator
typeof(v) == IF v.t \in {"null", "object", "array"} THEN "object" ELSE v.t

\* v[k] for a value v and a key k; reading a key of undefined or null throws
hasProps(v) == v.t \notin {"undefined", "null"}

prop(v, k) ==
    CASE v.t = "object" -> IF k \in DOMAIN v.o THEN v.o[k] ELSE Undefined
      [] v.t = "array"  ->
            LET i == parseNumber(k)
            IN  IF isNumeric(k) /\ i.n >= 0 /\ i.n < Len(v.a) THEN v.a[i.n + 1]
                ELSE IF k = <<"l", "e", "n", "g", "t", "h">> THEN Num(Len(v.a))
                ELSE Undefined
      [] v.t = "string" ->
            LET i == parseNumber(k)
            IN  IF isNumeric(k) /\ i.n >= 0 /\ i.n < Len(v.s) THEN Str(<<v.s[i.n + 1]>>)
                ELSE IF k = <<"l", "e", "n", "g", "t", "h">> THEN Num(Len(v.s))
                ELSE Undefined
      [] OTHER -> Undefined

\* v.length
lengthOf(v) ==
    CASE v.t = "array"  -> Num(Len(v.a))
      [] v.t = "string" -> Num(Len(v.s))
      [] OTHER          -> prop(v, <<"l", "e", "n", "g", "t", "h">>)

RECURSIVE getPath(_, _)
\* this.$get(path): the value at the segments segs below v, undefined when
\* the path leaves the structure
getPath(v, segs) ==
    IF Len(segs) = 0 THEN v
    ELSE IF ~hasProps(v) THEN Undefined
    ELSE getPath(prop(v, Head(segs)), Tail(segs))

\* ToNumber of a primitive value
toNumber(v) ==
    CASE v.t = "number"    -> [nan |-> FALSE, n |-> v.n]
      [] v.t = "string"    -> IF Len(v.s) = 0 THEN [nan |-> FALSE, n |-> 0]
                              ELSE IF isNumeric(v.s) THEN parseNumber(v.s)
                              ELSE NaN
      [] v.t = "boolean"   -> [nan |-> FALSE, n |-> IF v.b THEN 1 ELSE 0]
      [] v.t = "null"      -> [nan |-> FALSE, n |-> 0]
      [] v.t = "undefined" -> NaN

\* a === b on primitive values
strictEq(a, b) == a.t \in {"number", "string", "boolean", "undefined", "null"} /\ a = b

\* a == b on primitive values
looseEq(a, b) ==
    CASE a.t = b.t -> strictEq(a, b)
      [] a.t \in {"undefined", "null"} /\ b.t \in {"undefined", "null"} -> TRUE
      [] a.t \in {"undefined", "null"} \/ b.t \in {"undefined", "null"} -> FALSE
      [] a.t \in {"number", "string", "boolean"} /\ b.t \in {"number", "string", "boolean"} ->
            LET x == toNumber(a)
                y == toNumber(b)
            IN  ~x.nan /\ ~y.nan /\ x.n = y.n

\* n <= a, n >= a for a number n and an argument a
lessEq(n, a) == LET y == toNumber(a) IN ~y.nan /\ n <= y.n

greaterEq(n, a) == LET y == toNumber(a) IN ~y.nan /\ n >= y.n

-----------------------------------------------------------------------------
(* The rule set: validator_.validRules and the rule methods *)

R_required == <<"r", "e", "q", "u", "i", "r", "e", "d">>

R_max == <<"m", "a", "x">>

R_min == <<"m", "i", "n">>

R_size == <<"s", "i", "z", "e">>

R_equals == <<"e", "q", "u", "a", "l", "s">>

R_in == <<"i", "n">>

R_boolean == <<"b", "o", "o", "l", "e", "a", "n">>

R_string == <<"s", "t", "r", "i", "n", "g">>

R_number == <<"n", "u", "m", "b", "e", "r">>

R_array == <<"a", "r", "r", "a", "y">>

R_regex == <<"r", "e", "g", "e", "x">>

R_alpha_num == <<"a", "l", "p", "h", "a", "_", "n", "u", "m">>

R_alpha_dash == <<"a", "l", "p", "h", "a", "_", "d", "a", "s", "h">>

R_email == <<"e", "m", "a", "i", "l">>

\* the keys of validator_.validRules
validRules ==
    {R_required, R_max, R_min, R_size, R_equals,
     R_in, R_boolean, R_string, R_number, R_array,
     R_regex, R_alpha_num, R_alpha_dash, R_email}

UpperLetters == {"A", "B", "C", "D", "E", "F", "G", "H", "I", "J", "K", "L", "M",
                 "N", "O", "P", "Q", "R", "S", "T", "U", "V", "W", "X", "Y", "Z"}

\* the characters of /^[a-zA-Z0-9]+$/ and of /^[a-zA-Z0-9_-]+$/
AlphaNumClass == Letters \cup UpperLetters \cup Digits

AlphaDashClass == AlphaNumClass \cup {"_", "-"}

DigitChar ==
    (0 :> "0") @@ (1 :> "1") @@ (2 :> "2") @@ (3 :> "3") @@ (4 :> "4") @@
    (5 :> "5") @@ (6 :> "6") @@ (7 :> "7") @@ (8 :> "8") @@ (9 :> "9")

RECURSIVE natToString(_)
natToString(n) ==
    IF n < 10 THEN <<DigitChar[n]>>
    ELSE Append(natToString(n \div 10), DigitChar[n % 10])

RECURSIVE toString(_)
\* value.toString(); called on a value that is neither undefined nor null
toString(v) ==
    CASE v.t = "string"  -> v.s
      [] v.t = "number"  -> IF v.n < 0 THEN <<"-">> \o natToString(0 - v.n)
                            ELSE natToString(v.n)
      [] v.t = "boolean" -> IF v.b THEN <<"t", "r", "u", "e">>
                            ELSE <<"f", "a", "l", "s", "e">>
      [] v.t = "object"  -> <<"[", "o", "b", "j", "e", "c", "t", " ",
                              "O", "b", "j", "e", "c", "t", "]">>
      [] v.t = "array"   ->
            join([i \in 1..Len(v.a) |->
                     IF v.a[i].t \in {"undefined", "null"} THEN <<>>
                     ELSE toString(v.a[i])], ",")

\* The outcome of a rule method: r is "pass" (it returned true), "fail" (it
\* returned false) or "throw"; v is validator_.value when it returns, which
\* regex_ overwrites; f names the fault of a throw and m is the rule name
\* that the message of uncertainInput carries.
Pass(v) == [r |-> "pass", v |-> v, f |-> "", m |-> <<>>]

Fail(v) == [r |-> "fail", v |-> v, f |-> "", m |-> <<>>]

Throw(v, f) == [r |-> "throw", v |-> v, f |-> f, m |-> <<>>]

Outcome(b, v) == IF b THEN Pass(v) ELSE Fail(v)

\* args[0]
arg0(args) == IF args.t = "array" /\ Len(args.a) > 0 THEN args.a[1] ELSE Undefined

uncertainInput(v, method) == [r |-> "throw", v |-> v, f |-> "UncertainInput", m |-> method]

required_(v) ==
    CASE typeof(v) = "undefined" -> Fail(v)
      [] typeof(v) = "number"    -> Pass(v)
      [] typeof(v) = "boolean"   -> Pass(v)
      [] typeof(v) = "string"    -> Outcome(Len(v.s) > 0, v)
      [] OTHER                   -> uncertainInput(v, R_required)

\* value.length <= args[0] and the like, for a value whose typeof is object:
\* null has no length (a TypeError), a plain object's length is undefined
objectLength(v, args, cmp) ==
    IF v.t = "null" THEN Throw(v, "TypeError")
    ELSE IF lengthOf(v).t = "number"
    THEN Outcome(IF cmp = "<=" THEN lessEq(lengthOf(v).n, arg0(args))
                 ELSE greaterEq(lengthOf(v).n, arg0(args)), v)
    ELSE Fail(v)

max_(v, args) ==
    CASE typeof(v) = "number" -> Outcome(lessEq(v.n, arg0(args)), v)
      [] typeof(v) = "string" -> Outcome(lessEq(Len(v.s), arg0(args)), v)
      [] typeof(v) = "object" -> objectLength(v, args, "<=")
      [] OTHER                -> uncertainInput(v, R_max)

min_(v, args) ==
    CASE typeof(v) = "number" -> Outcome(greaterEq(v.n, arg0(args)), v)
      [] typeof(v) = "string" -> Outcome(greaterEq(Len(v.s), arg0(args)), v)
      [] typeof(v) = "object" -> objectLength(v, args, ">=")
      [] OTHER                -> uncertainInput(v, R_max)

in_(v, args) ==
    Outcome(args.t = "array" /\ \E i \in 1..Len(args.a) : strictEq(args.a[i], v), v)

sizeEq(n, a) == strictEq(Num(n), a)

size_(v, args) ==
    CASE typeof(v) = "number" -> Outcome(strictEq(v, arg0(args)), v)
      [] typeof(v) = "string" -> Outcome(sizeEq(Len(v.s), arg0(args)), v)
      [] typeof(v) = "object" ->
            IF v.t = "null" THEN Throw(v, "TypeError")
            ELSE Outcome(strictEq(lengthOf(v), arg0(args)), v)
      [] OTHER                -> uncertainInput(v, R_size)

equals_(v, args) == Outcome(looseEq(v, arg0(args)), v)

boolean_(v) == Outcome(typeof(v) = "boolean", v)

string_(v) == Outcome(typeof(v) = "string", v)

number_(v) == Outcome(typeof(v) = "number", v)

array_(v) == Outcome(typeof(v) = "object", v)

\* regex_ called with the RegExp /^[class]+$/: a value that is not a string is
\* replaced in validator_.value by its toString() before the match
regex_(v, class) ==
    IF typeof(v) # "string" THEN
        IF v.t \in {"undefined", "null"} THEN Throw(v, "TypeError")
        ELSE LET s == toString(v)
             IN  Outcome(Len(s) > 0 /\ \A i \in 1..Len(s) : s[i] \in class, Str(s))
    ELSE IF Len(v.s) = 0 THEN Pass(v)
    ELSE Outcome(\A i \in 1..Len(v.s) : v.s[i] \in class, v)

alphaNum_(v) ==
    IF typeof(v) = "string" /\ Len(v.s) = 0 THEN Pass(v)
    ELSE regex_(v, AlphaNumClass)

alphaDash_(v) ==
    IF typeof(v) = "string" /\ Len(v.s) = 0 THEN Pass(v)
    ELSE regex_(v, AlphaDashClass)

\* validator_.validRules[rule].call(this, args) with validator_.value = v.
\* The rules regex and email take patterns that are not modelled: they can
\* be registered, and no modelled check evaluates them.
callRule(rule, args, v) ==
    CASE rule = R_required   -> required_(v)
      [] rule = R_max        -> max_(v, args)
      [] rule = R_min        -> min_(v, args)
      [] rule = R_size       -> size_(v, args)
      [] rule = R_equals     -> equals_(v, args)
      [] rule = R_in         -> in_(v, args)
      [] rule = R_boolean    -> boolean_(v)
      [] rule = R_string     -> string_(v)
      [] rule = R_number     -> number_(v)
      [] rule = R_array      -> array_(v)
      [] rule = R_alpha_num  -> alphaNum_(v)
      [] rule = R_alpha_dash -> alphaDash_(v)

-----------------------------------------------------------------------------
(* The error tree: this.errors *)

\* An object of the tree is the map m from the paths of its leaves to their
\* strings.  A root registered as an array holds a sequence of entries; an
\* entry is undefined, null or an object (k), and o is the identity of the
\* object: two entries with the same o are one shared object.
ObjNode(m) == [k |-> "obj", m |-> m]

ArrNode(a) == [k |-> "arr", a |-> a]

Entry(o, k, m) == [o |-> o, k |-> k, m |-> m]

isPrefix(p, q) == Len(p) <= Len(q) /\ SubSeq(q, 1, Len(p)) = p

\* Vue's setPath on an object: the leaf at path p becomes v; a leaf met on
\* the way is replaced by an object, and an object found at p by the leaf
setLeaf(m, p, v) ==
    LET keep == {q \in DOMAIN m : ~isPrefix(q, p) /\ ~isPrefix(p, q)}
    IN  [q \in keep \cup {p} |-> IF q = p THEN v ELSE m[q]]

\* this.$set('errors.' + path, v) for a path root(.key)
setErrors(E, root, key, v) ==
    LET p   == IF Len(key) = 0 THEN <<>> ELSE split(key, ".")
        old == IF root \in DOMAIN E /\ E[root].k = "obj" THEN E[root].m ELSE EmptyMap
        new == ObjNode(setLeaf(old, p, v))
    IN  [r \in DOMAIN E \cup {root} |-> IF r = root THEN new ELSE E[r]]

\* the object built by  temp = {}; this.$set('validator_.temp.' + key, v):
\* with an empty key the path 'validator_.temp.' does not parse and nothing
\* is set
placeholder(key, v) ==
    IF Len(key) = 0 THEN EmptyMap ELSE setLeaf(EmptyMap, split(key, "."), v)

\* for (var k in temp) object[k] = temp[k]: every top-level key of temp
\* replaces the whole of what the object held under that key
mergeTop(m, temp) ==
    LET tops == {q[1] : q \in DOMAIN temp}
        keep == {q \in DOMAIN m : q[1] \notin tops}
    IN  [q \in keep \cup DOMAIN temp |-> IF q \in DOMAIN temp THEN temp[q] ELSE m[q]]

\* an assignment through errors[root][x]: every entry that is the same object
\* sees it
writeObject(a, x, m) ==
    [i \in 1..Len(a) |-> IF a[i].o = a[x].o THEN Entry(a[i].o, "obj", m) ELSE a[i]]

\* array.$set(x, object) with a new object: position x stops sharing, and the
\* entries that shared with it keep the least of their positions as identity
replaceEntry(a, x, k, m) ==
    LET others == {i \in 1..Len(a) : i # x /\ a[i].o = a[x].o}
        least  == CHOOSE i \in others : \A j \in others : i <= j
    IN  [i \in 1..Len(a) |->
            IF i = x THEN Entry(x, k, m)
            ELSE IF i \in others THEN Entry(least, a[i].k, a[i].m)
            ELSE a[i]]

\* this.errors = JSON.parse(JSON.stringify(this.errors)): no two entries
\* share an object afterwards, and an undefined entry comes back as null
cloneErrors(E) ==
    [r \in DOMAIN E |->
        IF E[r].k = "arr"
        THEN ArrNode([i \in 1..Len(E[r].a) |->
                Entry(i, IF E[r].a[i].k = "undefined" THEN "null" ELSE E[r].a[i].k,
                      E[r].a[i].m)])
        ELSE E[r]]

-----------------------------------------------------------------------------
(* The check engine *)

\* What a method of the check engine leaves behind: the error tree E, the
\* count n it returns, and fault, the exception that ended it ("" when it
\* returned).  A throw keeps the writes made before it.
Res(E, n, fault) == [E |-> E, n |-> n, fault |-> fault]

\* validator_.arrayIndex: NoIndex is null, At(i) the index i
NoIndex == <<>>

At(i) == <<i>>

\* errors[root][i]: undefined outside the array
entryAt(a, i) ==
    IF i >= 0 /\ i < Len(a) THEN a[i + 1] ELSE [o |-> 0, k |-> "undefined", m |-> EmptyMap]

\* the decimal text of an index, as a property name
indexName(i) == IF i < 0 THEN <<"-">> \o natToString(0 - i) ELSE natToString(i)

\* validator_.path as checkSpecificKey_ and fetchValueOfArray build it
pathOf(root, key) == IF Len(key) > 0 THEN root \o <<".">> \o key ELSE root

\* the message stored by addRules for (path, rule)
messageOf(path, rule) == errMsg[<<path, rule>>]

setError_(E, root, key, idx, rule) ==
    LET error == messageOf(pathOf(root, key), rule)
    IN  IF idx = NoIndex THEN Res(setErrors(E, root, key, error), 0, "")
        ELSE LET a == E[root].a
                 e == entryAt(a, idx[1])
             IN  IF e.k = "undefined" THEN Res(E, 0, "SyntaxError")
                 ELSE LET copy == IF e.k = "null" THEN EmptyMap ELSE e.m
                          temp == IF Len(key) = 0 THEN copy
                                  ELSE setLeaf(copy, split(key, "."), error)
                          set  == [E EXCEPT ![root] =
                                      ArrNode(replaceEntry(a, idx[1] + 1, "obj", temp))]
                      IN  Res(cloneErrors(set), 0, "")

clearError_(E, root, key, idx) ==
    IF idx = NoIndex THEN Res(setErrors(E, root, key, ""), 0, "")
    ELSE LET a    == E[root].a
             e    == entryAt(a, idx[1])
             temp == placeholder(key, "")
         IN  IF DOMAIN temp = {} THEN Res(cloneErrors(E), 0, "")
             ELSE IF e.k # "obj" THEN Res(E, 0, "TypeError")
             ELSE Res(cloneErrors([E EXCEPT ![root] =
                        ArrNode(writeObject(a, idx[1] + 1, mergeTop(e.m, temp)))]), 0, "")

RECURSIVE walk(_, _)
\* value = value[splitKeys[x]] for every x: a step from undefined or null throws
walk(v, segs) ==
    IF Len(segs) = 0 THEN [ok |-> TRUE, v |-> v]
    ELSE IF ~hasProps(v) THEN [ok |-> FALSE, v |-> Undefined]
    ELSE walk(prop(v, Head(segs)), Tail(segs))

fetchValueOfArray(root, key, idx) ==
    LET element == prop(data[root], indexName(idx[1]))
    IN  IF Len(key) > 0 THEN walk(element, split(key, "."))
        ELSE [ok |-> TRUE, v |-> element]

\* errors++ after setError_ returned set
counted(set) == Res(set.E, 1, set.fault)

\* n more errors than the rest of a loop found
plus(n, rest) == [rest EXCEPT !.n = n + rest.n]

\* a rule method threw: the throw of uncertainInput carries the message
\* "Having a hard time resolving '" + path + "' for rule '" + method + "'"
thrown(E, out, path) ==
    IF out.f = "UncertainInput"
    THEN [n |-> 0, E |-> E, fault |-> out.f, path |-> path, method |-> out.m]
    ELSE Res(E, 0, out.f)

RECURSIVE rulesFrom(_, _, _, _, _, _, _)
\* the loop of runErrorCheckOnRules_ after clearError_ returned clr for the
\* i-th rule, which left validator_.value = v
ruleCleared(clr, root, key, idx, rules, i, v) ==
    IF clr.fault # "" THEN clr
    ELSE rulesFrom(clr.E, root, key, idx, rules, i + 1, v)

\* the body of the loop of runErrorCheckOnRules_ once the i-th rule gave out
ruleDone(out, E, root, key, idx, rules, i) ==
    IF out.r = "throw" THEN thrown(E, out, pathOf(root, key))
    ELSE IF out.r = "fail" THEN counted(setError_(E, root, key, idx, rules[i].rule))
    ELSE ruleCleared(clearError_(E, root, key, idx), root, key, idx, rules, i, out.v)

\* the loop of runErrorCheckOnRules_ from the i-th rule on, validator_.value = v
rulesFrom(E, root, key, idx, rules, i, v) ==
    IF i > Len(rules) THEN Res(E, 0, "")
    ELSE ruleDone(callRule(rules[i].rule, rules[i].args, v), E, root, key, idx, rules, i)

\* validator_.value as runErrorCheckOnRules_ fetches it: ok is FALSE when
\* fetchValueOfArray throws
fetchValue(root, key, idx) ==
    IF idx = NoIndex
    THEN [ok |-> TRUE, v |-> getPath(Obj(data), split(pathOf(root, key), "."))]
    ELSE fetchValueOfArray(root, key, idx)

rulesOn(got, E, root, key, idx, rules) ==
    IF ~got.ok THEN Res(E, 0, "TypeError")
    ELSE rulesFrom(E, root, key, idx, rules, 1, got.v)

runErrorCheckOnRules_(E, root, key, idx, rules) ==
    rulesOn(fetchValue(root, key, idx), E, root, key, idx, rules)

\* checkSpecificKey_ once indexOf gave the 0-based position k of the key
keyAt(k, E, root, key, idx) ==
    IF k = -1 THEN Res(E, 0, "UnregisteredKey")
    ELSE runErrorCheckOnRules_(E, root, key, idx, vars_[root].rules[k + 1])

checkSpecificKey_(E, root, key, idx) ==
    keyAt(indexOf(vars_[root].keys, key), E, root, key, idx)

RECURSIVE keysFrom(_, _, _, _)
\* the loop of checkAllKeys_ after the i-th key returned one
keyDone(one, root, idx, i) ==
    IF one.fault # "" THEN one
    ELSE plus(one.n, keysFrom(one.E, root, idx, i + 1))

\* the loop of checkAllKeys_ from the i-th key on
keysFrom(E, root, idx, i) ==
    IF i > Len(vars_[root].keys) THEN Res(E, 0, "")
    ELSE keyDone(checkSpecificKey_(E, root, vars_[root].keys[i], idx), root, idx, i)

checkAllKeys_(E, root, idx) == keysFrom(E, root, idx, 1)

\* the check of one element: all its keys when key is falsy, else the key
checkElement(E, root, key, idx) ==
    IF Len(key) = 0 THEN checkAllKeys_(E, root, idx)
    ELSE checkSpecificKey_(E, root, key, idx)

RECURSIVE indicesFrom(_, _, _, _, _)
\* the loop of checkWholeArray_ after the element at idx returned one
indexDone(one, root, key, length, idx) ==
    IF one.fault # "" THEN one
    ELSE plus(one.n, indicesFrom(one.E, root, key, length, idx + 1))

\* the loop of checkWholeArray_ from arrayIndex = idx on, over length elements
indicesFrom(E, root, key, length, idx) ==
    IF idx >= length THEN Res(E, 0, "")
    ELSE indexDone(checkElement(E, root, key, At(idx)), root, key, length, idx)

\* key is '' where the code passes no key: both are falsy in  if (! key)
checkWholeArray_(E, root, key, length) == indicesFrom(E, root, key, length, 0)

\* a resize that pushes one more copy of the first entry at every call,
\* whatever the two lengths are
resetErrorsArraySize_pushOne(E, root, length) ==
    IF E[root].k = "arr"
    THEN LET copy == IF Len(E[root].a) > 0 THEN E[root].a[1]
                     ELSE Entry(1, "undefined", EmptyMap)
         IN  [E EXCEPT ![root] = ArrNode(Append(E[root].a, Entry(1, copy.k, copy.m)))]
    ELSE E

resetErrorsArraySize_(E, root, length) ==
    IF E[root].k = "arr" /\ Len(E[root].a) < length
    THEN LET copy == IF Len(E[root].a) > 0 THEN E[root].a[1]
                     ELSE Entry(1, "undefined", EmptyMap)
         IN  [E EXCEPT ![root] = ArrNode([i \in 1..length |-> Entry(1, copy.k, copy.m)])]
    ELSE E

\* errorCheckArray_ after resetErrorsArraySize_ left the tree sized, for a
\* value of length elements; index is parseInt(variable[1])
arraySized(sized, root, variable, length, index) ==
    IF Len(variable) > 1 /\ truthy(index)
    THEN checkElement(sized, root, join(slice(variable, 2), "."), At(index.n))
    ELSE checkWholeArray_(sized, root, join(slice(variable, 1), "."), length)

\* errorCheckArray_ for a value whose length is the value len
arrayOf(len, E, root, variable) ==
    IF len.t # "number" \/ len.n = 0 THEN Res(E, 0, "")
    ELSE arraySized(resetErrorsArraySize_(E, root, len.n), root, variable, len.n,
                    IF Len(variable) > 1 THEN parseInt(variable[2]) ELSE NaN)

errorCheckArray_(E, root, variable) ==
    IF ~hasProps(data[root]) THEN Res(E, 0, "TypeError")
    ELSE arrayOf(lengthOf(data[root]), E, root, variable)

checkRootWasRegistered(root) == root \in DOMAIN vars_

\* errorCheckSpecific without its key branch: every scope of a root that is
\* not an array checks all the keys of the root
errorCheckSpecific_anyKey(E, scope) ==
    LET variable == split(scope, ".")
        root     == variable[1]
    IN  IF ~checkRootWasRegistered(root) THEN Res(E, 0, "UnregisteredField")
        ELSE IF vars_[root].isArray THEN errorCheckArray_(E, root, variable)
        ELSE checkAllKeys_(E, root, NoIndex)

errorCheckSpecific(E, scope) ==
    LET variable == split(scope, ".")
        root     == variable[1]
    IN  IF ~checkRootWasRegistered(root) THEN Res(E, 0, "UnregisteredField")
        ELSE IF vars_[root].isArray THEN errorCheckArray_(E, root, variable)
        ELSE IF Len(variable) > 1
        THEN checkSpecificKey_(E, root, join(slice(variable, 1), "."), NoIndex)
        ELSE checkAllKeys_(E, root, NoIndex)

RECURSIVE rootsFrom(_, _)
\* the loop of errorCheck after the i-th root returned one
rootDone(one, i) ==
    IF one.fault # "" THEN one
    ELSE plus(one.n, rootsFrom(one.E, i + 1))

\* for (variable in this.validator_.vars) errors += errorCheckSpecific(variable)
rootsFrom(E, i) ==
    IF i > Len(rootOrder) THEN Res(E, 0, "")
    ELSE rootDone(errorCheckSpecific(E, rootOrder[i]), i)

\* No names the call without an argument (variable === null)
No == [s |-> <<>>, some |-> FALSE]

Some(s) == [s |-> s, some |-> TRUE]

errorCheck(E, variable) ==
    IF ~variable.some THEN rootsFrom(E, 1)
    ELSE errorCheckSpecific(E, variable.s)

-----------------------------------------------------------------------------
(* Registration *)

\* the messages argument: one string, or a list of strings
OneMessage(s) == [s |-> s, t |-> "string"]

Messages(a) == [a |-> a, t |-> "array"]

\* messages.length is zero
noMessages(messages) ==
    IF messages.t = "string" THEN messages.s = "" ELSE Len(messages.a) = 0

\* getErrorMessage without the reuse of the last message: a rule past the
\* end of the list gets the generic message
getErrorMessage_noReuse(messages, count) ==
    IF noMessages(messages) THEN "Invalid input"
    ELSE IF messages.t = "string" THEN messages.s
    ELSE IF count >= Len(messages.a) THEN "Invalid input"
    ELSE messages.a[count + 1]

getErrorMessage(messages, count) ==
    IF noMessages(messages) THEN "Invalid input"
    ELSE IF messages.t = "string" THEN messages.s
    ELSE IF count >= Len(messages.a) THEN messages.a[Len(messages.a)]
    ELSE messages.a[count + 1]

formatArguments(rule) ==
    IF rule[1] = R_regex THEN Str(rule[2])
    ELSE LET args == split(rule[2], ",")
         IN  Arr([i \in 1..Len(args) |->
                    IF truthy(parseFloat(args[i])) THEN Num(parseFloat(args[i]).n)
                    ELSE Str(args[i])])

\* "" when the rule is valid, else the fault that validateRule throws
validateRule(rule) ==
    IF rule \in validRules THEN ""
    ELSE IF rule = <<>> THEN "InvalidRuleSyntax"
    ELSE "UnknownRule"

\* rules[rule] = args on an object whose keys are kept in insertion order
putRule(rules, rule, args) ==
    IF \E i \in 1..Len(rules) : rules[i].rule = rule
    THEN [i \in 1..Len(rules) |->
            IF rules[i].rule = rule THEN [rule |-> rule, args |-> args] ELSE rules[i]]
    ELSE Append(rules, [rule |-> rule, args |-> args])

\* validator_.errMsg with the message of (path, rule) set
putMessage(M, path, rule, msg) ==
    [k \in DOMAIN M \cup {<<path, rule>>} |-> IF k = <<path, rule>> THEN msg ELSE M[k]]

RECURSIVE tokensFrom(_, _, _, _, _, _)
\* the loop of addRules from token number count (0-based) on
tokensFrom(M, path, tokens, messages, count, rules) ==
    IF count >= Len(tokens) THEN [M |-> M, rules |-> rules, fault |-> ""]
    ELSE LET splitRule == split(tokens[count + 1], ":")
             rule      == splitRule[1]
             bad       == validateRule(rule)
         IN  IF bad # "" THEN [M |-> M, rules |-> rules, fault |-> bad]
             ELSE tokensFrom(putMessage(M, path, rule, getErrorMessage(messages, count)),
                             path, tokens, messages, count + 1,
                             putRule(rules, rule,
                                     IF Len(splitRule) > 1 THEN formatArguments(splitRule)
                                     ELSE Arr(<<>>)))

addRules(M, path, rules, messages) ==
    tokensFrom(M, path, split(rules, "|"), messages, 0, <<>>)

\* a decomposition that keeps the '*' in the key of an array field
parseVariable_keepStar(variable) ==
    LET segs == split(variable, ".")
    IN  IF Len(segs) > 1 THEN
            [root |-> segs[1], isArray |-> segs[2] = <<"*">>,
             key  |-> join(slice(segs, 1), "."),
             path |-> segs[1] \o <<".">> \o join(slice(segs, 1), ".")]
        ELSE [root |-> variable, isArray |-> FALSE, key |-> <<>>, path |-> variable]

\* the decomposition of the path made by registerErrorChecking
parseVariable(variable) ==
    LET segs == split(variable, ".")
    IN  IF Len(segs) > 1 THEN
            IF segs[2] = <<"*">>
            THEN [root |-> segs[1], isArray |-> TRUE,
                  key  |-> IF Len(segs) > 2 THEN join(slice(segs, 2), ".") ELSE <<>>,
                  path |-> IF Len(segs) > 2
                           THEN segs[1] \o <<".">> \o join(slice(segs, 2), ".")
                           ELSE segs[1]]
            ELSE [root |-> segs[1], isArray |-> FALSE,
                  key  |-> join(slice(segs, 1), "."),
                  path |-> segs[1] \o <<".">> \o join(slice(segs, 1), ".")]
        ELSE [root |-> variable, isArray |-> FALSE, key |-> <<>>, path |-> variable]

\* a checkForConflicts that lets every registration through
checkForConflicts_none(root, isArray) == FALSE

\* whether checkForConflicts throws
checkForConflicts(root, isArray) == isArray # vars_[root].isArray

\* errors[root].$set(x, temp) with the object temp, whose identity is tid
setShared(a, x, tid, temp) ==
    IF x = Len(a) + 1 THEN Append(a, Entry(tid, "obj", temp))
    ELSE [i \in 1..Len(a) |-> IF i = x THEN Entry(tid, "obj", temp) ELSE a[i]]

RECURSIVE entriesFrom(_, _, _, _, _)
\* the loop of initializeErrorArray from x (0-based) on; tid is the position
\* that first received the object temp, 0 when none has
entriesFrom(a, temp, length, x, tid) ==
    IF x >= length THEN [a |-> a, fault |-> ""]
    ELSE IF entryAt(a, x).k = "undefined"
    THEN LET id == IF tid = 0 THEN x + 1 ELSE tid
         IN  entriesFrom(setShared(a, x + 1, id, temp), temp, length, x + 1, id)
    ELSE IF DOMAIN temp = {} THEN entriesFrom(a, temp, length, x + 1, tid)
    ELSE IF a[x + 1].k = "null" THEN [a |-> a, fault |-> "TypeError"]
    ELSE entriesFrom(writeObject(a, x + 1, mergeTop(a[x + 1].m, temp)),
                     temp, length, x + 1, tid)

\* arraySize 0 stands for null as well: both are falsy
initializeErrorArray(E, root, key, arraySize) ==
    LET value == data[root]
        E1    == IF root \in DOMAIN E THEN E
                 ELSE [r \in DOMAIN E \cup {root} |->
                          IF r = root THEN ArrNode(<<>>) ELSE E[r]]
        temp  == placeholder(key, "")
    IN  IF arraySize = 0 /\ ~hasProps(value) THEN [E |-> E1, fault |-> "TypeError"]
        ELSE LET length == IF arraySize # 0 THEN arraySize
                           ELSE IF lengthOf(value).t = "number" THEN lengthOf(value).n
                           ELSE 0
             IN  IF length = 0 THEN [E |-> E1, fault |-> ""]
                 ELSE IF E1[root].k # "arr" THEN [E |-> E1, fault |-> "TypeError"]
                 ELSE LET done == entriesFrom(E1[root].a, temp, length, 0, 0)
                      IN  [E |-> [E1 EXCEPT ![root] = ArrNode(done.a)], fault |-> done.fault]

\* a register_ that puts the new rule-set in front of the rule-sets the root
\* has, and the key behind its keys
register_unshift(p, rules, messages, arraySize) ==
    LET fresh  == p.root \notin DOMAIN vars_
        before == [vars_ |-> vars_, rootOrder |-> rootOrder, errMsg |-> errMsg,
                   errors |-> errors, fault |-> ""]
    IN  IF ~fresh /\ checkForConflicts(p.root, p.isArray)
        THEN [before EXCEPT !.fault = "ArrayConflict"]
        ELSE LET added == addRules(errMsg, p.path, rules, messages)
             IN  IF added.fault # ""
                 THEN [before EXCEPT !.errMsg = added.M, !.fault = added.fault]
                 ELSE LET entry == IF fresh
                                   THEN [rules |-> <<added.rules>>, isArray |-> p.isArray,
                                         keys |-> <<p.key>>]
                                   ELSE [vars_[p.root] EXCEPT
                                            !.rules = <<added.rules>> \o @,
                                            !.keys  = Append(@, p.key)]
                          V     == [r \in DOMAIN vars_ \cup {p.root} |->
                                       IF r = p.root THEN entry ELSE vars_[r]]
                          O     == IF fresh THEN Append(rootOrder, p.root) ELSE rootOrder
                          init  == IF ~p.isArray
                                   THEN [E |-> setErrors(errors, p.root, p.key, ""),
                                         fault |-> ""]
                                   ELSE initializeErrorArray(errors, p.root, p.key, arraySize)
                      IN  [vars_ |-> V, rootOrder |-> O, errMsg |-> added.M,
                           errors |-> init.E, fault |-> init.fault]

\* register_ with the attributes parsed from the path: the tables it leaves
\* and the fault that ended it
register_(p, rules, messages, arraySize) ==
    LET fresh  == p.root \notin DOMAIN vars_
        before == [vars_ |-> vars_, rootOrder |-> rootOrder, errMsg |-> errMsg,
                   errors |-> errors, fault |-> ""]
    IN  IF ~fresh /\ checkForConflicts(p.root, p.isArray)
        THEN [before EXCEPT !.fault = "ArrayConflict"]
        ELSE LET added == addRules(errMsg, p.path, rules, messages)
             IN  IF added.fault # ""
                 THEN [before EXCEPT !.errMsg = added.M, !.fault = added.fault]
                 ELSE LET entry == IF fresh
                                   THEN [rules |-> <<added.rules>>, isArray |-> p.isArray,
                                         keys |-> <<p.key>>]
                                   ELSE [vars_[p.root] EXCEPT
                                            !.rules = Append(@, added.rules),
                                            !.keys  = Append(@, p.key)]
                          V     == [r \in DOMAIN vars_ \cup {p.root} |->
                                       IF r = p.root THEN entry ELSE vars_[r]]
                          O     == IF fresh THEN Append(rootOrder, p.root) ELSE rootOrder
                          init  == IF ~p.isArray
                                   THEN [E |-> setErrors(errors, p.root, p.key, ""),
                                         fault |-> ""]
                                   ELSE initializeErrorArray(errors, p.root, p.key, arraySize)
                      IN  [vars_ |-> V, rootOrder |-> O, errMsg |-> added.M,
                           errors |-> init.E, fault |-> init.fault]

-----------------------------------------------------------------------------
(* The calls *)

\* a call of registerErrorChecking; arraySize 0 is the default null
Call(variable, rules, messages, watch, arraySize) ==
    [rules |-> rules, variable |-> variable, messages |-> messages,
     arraySize |-> arraySize, watch |-> watch]

Last(op, arg, ret, fault) == [fault |-> fault, op |-> op, arg |-> arg, ret |-> ret]

\* what a call of the check engine that ended as done leaves in last: the
\* count it returned or the fault it threw, with the field and the rule that
\* the message of uncertainInput names
Ended(op, arg, done) ==
    IF done.fault = "UncertainInput"
    THEN [fault |-> done.fault, op |-> op, arg |-> arg, ret |-> 0,
          path |-> done.path, method |-> done.method]
    ELSE Last(op, arg, IF done.fault = "" THEN done.n ELSE 0, done.fault)

\* this.$watch(path, ...) adds an observer; validator_.watching[path] keeps
\* the handle of the latest one only
addWatch(W, path) == Append(W, path)

registerErrorChecking(c) ==
    \E p \in {parseVariable(c.variable)} :
    \E done \in {register_(p, c.rules, c.messages, c.arraySize)} :
        /\ pending = <<>>
        /\ vars_' = done.vars_
        /\ rootOrder' = done.rootOrder
        /\ errMsg' = done.errMsg
        /\ errors' = done.errors
        /\ IF done.fault = "" /\ c.watch /\ ~p.isArray
           THEN /\ watching' = watching \cup {p.path}
                /\ watchers' = addWatch(watchers, p.path)
           ELSE UNCHANGED <<watching, watchers>>
        /\ last' = Last("registerErrorChecking", c, 0, done.fault)
        /\ UNCHANGED <<data, pending>>

\* errorCheck(variable): the count it returns, or the fault it ends with
ErrorCheck(variable) ==
    /\ pending = <<>>
    /\ \E done \in {errorCheck(errors, variable)} :
        /\ errors' = done.E
        /\ last' = Ended("errorCheck", variable, done)
    /\ UNCHANGED <<data, vars_, rootOrder, errMsg, watching, watchers, pending>>

\* an observer that never runs its callback
fires_never(path, root, value) == FALSE

\* an observer of path runs its callback when the assignment of value to
\* root gave the path another value, or an object
fires(path, root, value) ==
    LET segs == split(path, ".")
        old  == getPath(Obj(data), segs)
        new  == getPath(Obj([data EXCEPT ![root] = value]), segs)
    IN  segs[1] = root /\ (new # old \/ new.t \in {"object", "array"})

RECURSIVE runWatchers(_, _, _)
\* the run of the queued callbacks after the i-th one returned one
watcherDone(one, fired, i) ==
    IF one.fault # "" THEN one
    ELSE plus(one.n, runWatchers(one.E, fired, i + 1))

\* function() { this.errorCheck(path); } of each observer that fires, in the
\* order the observers were created; a throw ends the run
runWatchers(E, fired, i) ==
    IF i > Len(fired) THEN Res(E, 0, "")
    ELSE watcherDone(errorCheck(E, Some(fired[i])), fired, i)

\* the component assigns a new value to one of its data properties; the
\* observers that fire are queued for the next tick
SetData(root, value) ==
    /\ pending = <<>>
    /\ data[root] # value
    /\ data' = [data EXCEPT ![root] = value]
    /\ pending' = SelectSeq(watchers, LAMBDA path : fires(path, root, value))
    /\ last' = Last("set", root, 0, "")
    /\ UNCHANGED <<vars_, rootOrder, errMsg, errors, watching, watchers>>

\* the next tick: the queued callbacks run, before the component does
\* anything else
Flush ==
    /\ pending # <<>>
    /\ \E done \in {runWatchers(errors, pending, 1)} :
        /\ errors' = done.E
        /\ last' = Ended("watch", pending, done)
    /\ pending' = <<>>
    /\ UNCHANGED <<data, vars_, rootOrder, errMsg, watching, watchers>>

\* a manualErrorChecking that does not look at the registration table
manualErrorChecking_unguarded(E, variable, msg) ==
    [E |-> setErrors(E, split(variable, ".")[1],
                     join(slice(split(variable, "."), 1), "."), msg),
     fault |-> ""]

\* manualErrorChecking(variable, msg): the tree it leaves and the fault that
\* ended it
manualErrorChecking(E, variable, msg) ==
    IF split(variable, ".")[1] \in DOMAIN vars_
    THEN [E |-> E, fault |-> "AlreadyAutomated"]
    ELSE [E |-> setErrors(E, split(variable, ".")[1],
                          join(slice(split(variable, "."), 1), "."), msg),
          fault |-> ""]

ManualErrorChecking(variable, msg) ==
    /\ pending = <<>>
    /\ \E done \in {manualErrorChecking(errors, variable, msg)} :
        /\ errors' = done.E
        /\ last' = Last("manualErrorChecking", [variable |-> variable, msg |-> msg],
                        0, done.fault)
    /\ UNCHANGED <<data, vars_, rootOrder, errMsg, watching, watchers, pending>>

\* validator_.watching[key].call() for every key: the observer whose handle
\* is kept for a path is the one created last for it
unwatchAll(W, handles) ==
    SelectSeq([i \in 1..Len(W) |->
                  IF W[i] \in handles /\ \A j \in (i + 1)..Len(W) : W[j] # W[i]
                  THEN <<>> ELSE <<W[i]>>],
              LAMBDA w : w # <<>>)

\* the paths of the observers left alive by unwatchAll
stillWatching(W, handles) ==
    [i \in 1..Len(unwatchAll(W, handles)) |-> unwatchAll(W, handles)[i][1]]

resetErrorChecking ==
    /\ pending = <<>>
    /\ vars_' = <<>>
    /\ rootOrder' = <<>>
    /\ errors' = <<>>
    /\ errMsg' = <<>>
    /\ watchers' = stillWatching(watchers, watching)
    /\ watching' = {}
    /\ last' = Last("resetErrorChecking", <<>>, 0, "")
    /\ UNCHANGED <<data, pending>>

\* typeof this.errors[key] === 'string': the root itself is a leaf
isString(node) == node.k = "obj" /\ DOMAIN node.m = {<<>>}

\* for (var key in this.errors) if (typeof this.errors[key] === 'string') ...
clearErrors(E) ==
    [r \in DOMAIN E |-> IF isString(E[r]) THEN ObjNode(<<>> :> "") ELSE E[r]]

ClearErrors ==
    /\ pending = <<>>
    /\ errors' = clearErrors(errors)
    /\ last' = Last("clearErrors", <<>>, 0, "")
    /\ UNCHANGED <<data, vars_, rootOrder, errMsg, watching, watchers, pending>>

-----------------------------------------------------------------------------
(* The component under check: its data, and the calls made on it *)

\* the longest array the component holds
MaxLen == 2

\* the most registrations made for one root
MaxKeys == 2

Team == <<"t">>

Location == <<"l">>

Players == <<"p">>

Bar == <<"|">>

\* the values of the scalar field t
TeamValues == {Str(<<>>), Str(<<"a", "1">>), Str(<<"a", "_">>), Num(10)}

\* the values of the object l: its keys a and b
LocationOf(a, b) == Obj((<<"a">> :> a) @@ (<<"b">> :> b))

LocationValues ==
    {LocationOf(a, b) : a \in {Str(<<>>), Str(<<"a", "b">>)},
                        b \in {Str(<<"a">>), Str(<<"a", "b">>)}}

\* an element of the array p: its keys e, n.f and n.l
Element(e, f, l) ==
    Obj((<<"e">> :> Str(e)) @@ (<<"n">> :> Obj((<<"f">> :> Str(f)) @@ (<<"l">> :> Str(l)))))

Elements ==
    {Element(<<"a">>, <<"a">>, <<"a">>), Element(<<>>, <<"a">>, <<"a">>),
     Element(<<"a">>, <<>>, <<"a">>)}

RECURSIVE SeqsUpTo(_, _)
SeqsUpTo(S, n) ==
    IF n = 0 THEN {<<>>}
    ELSE LET shorter == SeqsUpTo(S, n - 1)
         IN  shorter \cup {Append(q, x) : q \in {r \in shorter : Len(r) = n - 1}, x \in S}

PlayersValues == {Arr(a) : a \in SeqsUpTo(Elements, MaxLen)}

\* how many registrations the root of a call has had
registered(c) ==
    LET root == parseVariable(c.variable).root
    IN  IF root \in DOMAIN vars_ THEN Len(vars_[root].keys) ELSE 0

NoLast == Last("", <<>>, 0, "")

InitData == (Team :> Str(<<"a", "1">>))
            @@ (Location :> LocationOf(Str(<<"a", "b">>), Str(<<"a", "b">>)))
            @@ (Players :> Arr(<<>>))

\* the state of a component that was just created
Init ==
    /\ data = InitData
    /\ vars_ = <<>>
    /\ rootOrder = <<>>
    /\ errMsg = <<>>
    /\ errors = <<>>
    /\ watching = {}
    /\ watchers = <<>>
    /\ pending = <<>>
    /\ last = NoLast

-----------------------------------------------------------------------------
(* An array field: the component registers keys of p.*, replaces the array *)
(* and checks it                                                           *)

ArrayCalls ==
    {Call(<<"p", ".", "*", ".", "e">>, R_required, Messages(<<"Invalid email">>), TRUE, 0),
     Call(<<"p", ".", "*", ".", "n", ".", "f">>, R_required, Messages(<<"Enter a name">>), TRUE, 0),
     Call(<<"p", ".", "*", ".", "n", ".", "l">>, R_required, Messages(<<"Enter a last name">>), TRUE, 0)}

ArrayScopes ==
    {Players, <<"p", ".", "e">>, <<"p", ".", "n", ".", "f">>, <<"p", ".", "1">>, <<"p", ".", "1", ".", "e">>, <<"p", ".", "1", ".", "n", ".", "f">>}

RegisterArray ==
    \E c \in ArrayCalls : registered(c) < MaxKeys /\ registerErrorChecking(c)

SetArray == \E v \in PlayersValues : SetData(Players, v)

CheckArray == \E scope \in ArrayScopes : ErrorCheck(Some(scope))

NextArray == RegisterArray \/ SetArray \/ CheckArray

SpecArray == Init /\ [][NextArray]_vars

-----------------------------------------------------------------------------
(* Scalar fields: the component registers t and keys of l, assigns them    *)
(* and checks them                                                         *)

ScalarCalls ==
    {Call(Team, R_required \o Bar \o R_alpha_num,
          Messages(<<"Enter a teamname", "Only letters and numbers">>), TRUE, 0),
     Call(Team, R_alpha_num \o Bar \o R_number,
          Messages(<<"Only letters and numbers", "Enter a number">>), FALSE, 0),
     Call(<<"l", ".", "a">>, R_required \o Bar \o R_size \o <<":", "2">>,
          Messages(<<"Enter a zip", "Invalid zip">>), TRUE, 0),
     Call(<<"l", ".", "b">>, R_min \o <<":", "2">>, OneMessage("Too short"), FALSE, 0)}

ScalarScopes == {Team, Location, <<"l", ".", "a">>, <<"l", ".", "b">>}

RegisterScalar ==
    \E c \in ScalarCalls : registered(c) < MaxKeys /\ registerErrorChecking(c)

SetScalar ==
    \/ \E v \in TeamValues : SetData(Team, v)
    \/ \E v \in LocationValues : SetData(Location, v)

CheckScalar == \E scope \in ScalarScopes : ErrorCheck(Some(scope))

NextScalar == RegisterScalar \/ SetScalar \/ CheckScalar \/ Flush

SpecScalar == Init /\ [][NextScalar]_vars

-----------------------------------------------------------------------------
(* The whole component: a scalar field and an array field side by side,    *)
(* with a root that is registered both as an array and as an object        *)

Calls ==
    {Call(Team, R_required \o Bar \o R_alpha_num,
          Messages(<<"Enter a teamname", "Only letters and numbers">>), TRUE, 0),
     Call(<<"p", ".", "*", ".", "e">>, R_required, Messages(<<"Invalid email">>), TRUE, 0),
     Call(<<"p", ".", "e">>, R_required, Messages(<<"Enter an email">>), TRUE, 0)}

Scopes == {Team, Players, <<"p", ".", "e">>, <<"p", ".", "1">>}

SomeTeamValues == {Str(<<>>), Str(<<"a", "1">>)}

SomePlayersValues ==
    {Arr(a) : a \in SeqsUpTo({Element(<<"a">>, <<"a">>, <<"a">>),
                              Element(<<>>, <<>>, <<"a">>)}, MaxLen)}

Register == \E c \in Calls : registered(c) < MaxKeys /\ registerErrorChecking(c)

Set ==
    \/ \E v \in SomeTeamValues : SetData(Team, v)
    \/ \E v \in SomePlayersValues : SetData(Players, v)

Check == \E scope \in Scopes : ErrorCheck(Some(scope))

CheckAll == ErrorCheck(No)

Next == Register \/ Set \/ Check \/ CheckAll \/ Flush

Spec == Init /\ [][Next]_vars

-----------------------------------------------------------------------------
(* Registration alone: the component registers t with rule strings and     *)
(* messages of every shape                                                 *)

RuleStrings ==
    {R_required,
     R_required \o Bar \o R_alpha_num \o Bar \o R_max \o <<":", "1", "8">>,
     R_size \o <<":", "5">>,
     R_size \o <<":", "0">>,
     R_max \o <<":", "5", "a">>,
     R_in \o <<":", "y", "e", "s", ",", "n", "o">>,
     R_in \o <<":", "0", ",", "1", ",", "-", "3">>,
     R_regex \o <<":", "a", ",", "1">>,
     R_required \o Bar,
     <<"f", "o", "o">>}

MessageShapes ==
    {Messages(<<>>), OneMessage(""), OneMessage("Invalid teamname"),
     Messages(<<"Invalid teamname">>),
     Messages(<<"Enter a teamname", "Only letters and numbers">>)}

RegCalls == {Call(Team, r, m, FALSE, 0) : r \in RuleStrings, m \in MessageShapes}

RegisterAny == \E c \in RegCalls : registered(c) < MaxKeys /\ registerErrorChecking(c)

NextReg == RegisterAny

SpecReg == Init /\ [][NextReg]_vars

-----------------------------------------------------------------------------
(* The life of a component: fields are put under manual or automatic       *)
(* checking, with rule strings that are valid or not, the errors are       *)
(* cleared and the whole checking is reset                                 *)

LifeCalls ==
    {Call(Team, R_required, OneMessage("Enter a teamname"), TRUE, 0),
     Call(Team, R_required \o Bar, OneMessage("Teamname needed"), TRUE, 0),
     Call(<<"l", ".", "a">>, R_required, OneMessage("Enter a zip"), TRUE, 0),
     Call(<<"l", ".", "a">>, <<"f", "o", "o">>, OneMessage("Enter a zip"), TRUE, 0)}

ManualCalls ==
    {[variable |-> Team, msg |-> "Teamname taken"],
     [variable |-> <<"l", ".", "b">>, msg |-> ""]}

LifeScopes == {Team, <<"l", ".", "a">>}

LifeTeamValues == {Str(<<>>), Str(<<"a", "1">>)}

LifeLocationValues ==
    {LocationOf(Str(<<>>), Str(<<"a">>)), LocationOf(Str(<<"a", "b">>), Str(<<"a">>))}

\* the most observers the component creates
MaxWatchers == 3

RegisterLife ==
    \E c \in LifeCalls :
        /\ registered(c) < MaxKeys
        /\ Len(watchers) < MaxWatchers
        /\ registerErrorChecking(c)

Manual == \E c \in ManualCalls : ManualErrorChecking(c.variable, c.msg)

SetLife ==
    \/ \E v \in LifeTeamValues : SetData(Team, v)
    \/ \E v \in LifeLocationValues : SetData(Location, v)

CheckLife == \E scope \in LifeScopes : ErrorCheck(Some(scope))

NextLife ==
    \/ RegisterLife
    \/ Manual
    \/ SetLife
    \/ CheckLife
    \/ CheckAll
    \/ Flush
    \/ resetErrorChecking
    \/ ClearErrors

SpecLife == Init /\ [][NextLife]_vars

-----------------------------------------------------------------------------
(* The first element of an array field: the component checks p, a key of   *)
(* p, and the same at index 0                                              *)

ZeroScopes ==
    {Players, <<"p", ".", "e">>, <<"p", ".", "0">>, <<"p", ".", "0", ".", "e">>}

CheckZero == \E scope \in ZeroScopes : ErrorCheck(Some(scope))

NextZero == RegisterArray \/ SetArray \/ CheckZero

SpecZero == Init /\ [][NextZero]_vars

-----------------------------------------------------------------------------
(* A field of any type: the component registers t with the rules that      *)
(* measure a value, assigns t values of every type and checks it           *)

TypeRules ==
    {R_required, R_max \o <<":", "1">>, R_min \o <<":", "1">>, R_size \o <<":", "1">>,
     R_string \o Bar \o R_required, R_boolean \o Bar \o R_min \o <<":", "1">>}

TypeCalls == {Call(Team, r, Messages(<<"Not that type", "Not that size">>), FALSE, 0) : r \in TypeRules}

TypeValues ==
    {Str(<<>>), Str(<<"a">>), Num(1), Num(2), Bool(TRUE), Bool(FALSE), Undefined, Null,
     Obj(EmptyMap), Arr(<<Str(<<"a">>)>>)}

RegisterType == \E c \in TypeCalls : registered(c) < MaxKeys /\ registerErrorChecking(c)

SetType == \E v \in TypeValues : SetData(Team, v)

CheckType == ErrorCheck(Some(Team))

NextType == RegisterType \/ SetType \/ CheckType

SpecType == Init /\ [][NextType]_vars

-----------------------------------------------------------------------------
(* Equality: the component registers t with the rules in and equals, whose *)
(* arguments are numbers and strings, and assigns t numbers and strings    *)

EqualCalls ==
    {Call(Team, R_in \o <<":", "1", "0", ",", "a">>, OneMessage("Not in the list"), FALSE, 0),
     Call(Team, R_equals \o <<":", "1", "0">>, OneMessage("Not equal"), FALSE, 0),
     Call(Location, R_in \o <<":", "a", ",", "b">>, OneMessage("Not in the list"), FALSE, 0)}

EqualValues == {Str(<<"1", "0">>), Num(10), Str(<<"a">>), Str(<<"b">>), Num(1), Str(<<>>)}

RegisterEqual == \E c \in EqualCalls : registered(c) < MaxKeys /\ registerErrorChecking(c)

SetEqual ==
    \/ \E v \in EqualValues : SetData(Team, v)
    \/ \E v \in EqualValues : SetData(Location, v)

CheckEqual == \E scope \in {Team, Location} : ErrorCheck(Some(scope))

NextEqual == RegisterEqual \/ SetEqual \/ CheckEqual

SpecEqual == Init /\ [][NextEqual]_vars

-----------------------------------------------------------------------------
(* Two array fields: the component holds arrays in p and in l, registers   *)
(* the key e of both once, replaces the arrays and checks the two roots    *)

TwoCalls ==
    {Call(<<"p", ".", "*", ".", "e">>, R_required, Messages(<<"Invalid email">>), FALSE, 0),
     Call(<<"l", ".", "*", ".", "e">>, R_required, Messages(<<"Enter an email">>), FALSE, 0)}

PlayersOfTwo ==
    {Arr(<<>>), Arr(<<Element(<<>>, <<"a">>, <<"a">>)>>),
     Arr(<<Element(<<"a">>, <<"a">>, <<"a">>), Element(<<>>, <<"a">>, <<"a">>)>>)}

LocationsOfTwo ==
    {Arr(<<Element(<<>>, <<"a">>, <<"a">>)>>), Arr(<<Element(<<"a">>, <<"a">>, <<"a">>)>>)}

RegisterTwo == \E c \in TwoCalls : registered(c) = 0 /\ registerErrorChecking(c)

SetTwo ==
    \/ \E v \in PlayersOfTwo : SetData(Players, v)
    \/ \E v \in LocationsOfTwo : SetData(Location, v)

CheckTwo == \E scope \in {Players, Location} : ErrorCheck(Some(scope))

NextTwo == RegisterTwo \/ SetTwo \/ CheckTwo

SpecTwo == Init /\ [][NextTwo]_vars

-----------------------------------------------------------------------------
(* Paths: the component registers paths of every shape, a field, a key of  *)
(* an object, a nested key, an array and keys of its elements              *)

PathCalls ==
    {Call(v, R_required, OneMessage("Invalid input"), FALSE, 0) :
        v \in {Team, <<"l", ".", "a">>, <<"l", ".", "a", ".", "b">>,
               <<"p", ".", "*">>, <<"p", ".", "*", ".", "e">>,
               <<"p", ".", "*", ".", "n", ".", "f">>, <<"p", ".", "e">>}}

RegisterPath == \E c \in PathCalls : registered(c) < MaxKeys /\ registerErrorChecking(c)

NextPath == RegisterPath

SpecPath == Init /\ [][NextPath]_vars

-----------------------------------------------------------------------------
(* Rule tokens: the component registers rule strings whose tokens have no  *)
(* argument, one argument, a list of arguments, and a ':' in the argument  *)

TokenRules ==
    {R_required,
     R_max \o <<":", "5">>,
     R_in \o <<":", "y", "e", "s", ",", "n", "o">>,
     R_in \o <<":", "a", ":", "b", ",", "c">>,
     R_regex \o <<":", "a", ",", "1">>,
     R_regex \o <<":", "a", ":", "b">>,
     R_required \o Bar \o R_equals \o <<":", "1", ":", "3", "0">>}

TokenCalls ==
    {Call(v, r, OneMessage("Invalid input"), FALSE, 0) :
        v \in {Team, <<"l", ".", "a">>}, r \in TokenRules}

RegisterToken == \E c \in TokenCalls : registered(c) < MaxKeys /\ registerErrorChecking(c)

NextToken == RegisterToken

SpecToken == Init /\ [][NextToken]_vars

-----------------------------------------------------------------------------
(* What the claims speak of *)

\* the leaf of the error tree at root(.key): <<string>>, or <<>> when the
\* tree holds no leaf there
leafAt(E, root, key) ==
    LET kp == IF Len(key) = 0 THEN <<>> ELSE split(key, ".")
    IN  IF root \in DOMAIN E /\ E[root].k = "obj" /\ kp \in DOMAIN E[root].m
        THEN <<E[root].m[kp]>>
        ELSE <<>>

\* the leaf of entry i (1-based) of the error array of root at key
leafIn(E, root, i, key) ==
    LET kp == split(key, ".")
    IN  IF root \in DOMAIN E /\ E[root].k = "arr" /\ i \in 1..Len(E[root].a)
           /\ E[root].a[i].k = "obj" /\ kp \in DOMAIN E[root].a[i].m
        THEN <<E[root].a[i].m[kp]>>
        ELSE <<>>

rootOfScope(scope) == split(scope, ".")[1]

keyOfScope(scope) == join(Tail(split(scope, ".")), ".")

\* the last call was errorCheck(scope) with a scope, and it returned
Checked == last.op = "errorCheck" /\ last.fault = "" /\ last.arg.some

\* the positions at which key is listed among the keys of root
positionsOf(root, key) ==
    {i \in 1..Len(vars_[root].keys) : vars_[root].keys[i] = key}

\* scope is the path of a field of a root that is not an array, registered
\* by one call
isScalarField(scope) ==
    /\ rootOfScope(scope) \in DOMAIN vars_
    /\ ~vars_[rootOfScope(scope)].isArray
    /\ Cardinality(positionsOf(rootOfScope(scope), keyOfScope(scope))) = 1

\* the rule-set registered for key under root (the first, when the key is
\* listed more than once)
ruleSetOf(root, key) ==
    vars_[root].rules[CHOOSE i \in positionsOf(root, key) :
                         \A j \in positionsOf(root, key) : i <= j]

\* the positions of the rules of a rule-set that do not pass on the value v,
\* each rule taken by itself
failingRules(rules, v) ==
    {i \in 1..Len(rules) : callRule(rules[i].rule, rules[i].args, v).r # "pass"}

least(S) == CHOOSE i \in S : \A j \in S : i <= j

-----------------------------------------------------------------------------
(* C1 *)

\* C1: after errorCheck on a non-array field registered by one call, the field's error
\* leaf is '' if and only if every rule of its rule-set passes on the
\* current value; otherwise the leaf is the message stored for the first
\* failing rule in registration order and the call returns exactly 1.
C1_FirstFailingRule ==
    (Checked /\ isScalarField(last.arg.s)) =>
        LET scope   == last.arg.s
            root    == rootOfScope(scope)
            key     == keyOfScope(scope)
            rules   == ruleSetOf(root, key)
            value   == getPath(Obj(data), split(scope, "."))
            failing == failingRules(rules, value)
        IN  IF failing = {}
            THEN leafAt(errors, root, key) = <<"">> /\ last.ret = 0
            ELSE /\ leafAt(errors, root, key) =
                        <<messageOf(scope, rules[least(failing)].rule)>>
                 /\ last.ret = 1

-----------------------------------------------------------------------------
(* C2 *)

RECURSIVE eachRootFrom(_, _)
\* errorCheck(root) for the registered roots from the i-th on, one call after
\* the other: the tree they leave and the sum of what they return
eachRootFrom(E, i) ==
    IF i > Len(rootOrder) THEN Res(E, 0, "")
    ELSE LET one  == errorCheck(E, Some(rootOrder[i]))
             rest == eachRootFrom(one.E, i + 1)
         IN  Res(rest.E, one.n + rest.n, rest.fault)

keySegments(key) == IF Len(key) = 0 THEN <<>> ELSE split(key, ".")

\* the locations a check of everything visits whose rule-set has a failing
\* rule: <<root, key>> for a root that is not an array, <<root, index, key>>
\* for an array
failingLocations ==
    UNION {
        IF vars_[root].isArray
        THEN {loc \in {<<root, i, vars_[root].keys[k]>> :
                          i \in 0..(MaxLen - 1), k \in 1..Len(vars_[root].keys)} :
                 /\ data[root].t = "array"
                 /\ loc[2] < Len(data[root].a)
                 /\ failingRules(ruleSetOf(root, loc[3]),
                                 getPath(data[root], <<indexName(loc[2])>>
                                                     \o keySegments(loc[3]))) # {}}
        ELSE {loc \in {<<root, vars_[root].keys[k]>> : k \in 1..Len(vars_[root].keys)} :
                 failingRules(ruleSetOf(root, loc[2]),
                              getPath(data[root], keySegments(loc[2]))) # {}}
        : root \in DOMAIN vars_}

\* C2: errorCheck() without a scope returns the sum over the registered roots
\* of what errorCheck(root) returns, every location whose rule-set has a
\* failing rule adds exactly 1 to it, and the error tree it leaves is the one
\* left by checking every root in turn.
C2_CheckAll ==
    [][(last'.op = "errorCheck" /\ last'.fault = "" /\ ~last'.arg.some) =>
        /\ last'.ret = eachRootFrom(errors, 1).n
        /\ errors' = eachRootFrom(errors, 1).E
        /\ last'.ret = Cardinality(failingLocations)]_vars

-----------------------------------------------------------------------------
(* C3 *)

\* scope is 'root.key' for a registered array root and one of its keys, and
\* the error array of root has an entry for every element of the live array
isKeyScope(scope) ==
    LET root == rootOfScope(scope)
        key  == keyOfScope(scope)
    IN  /\ root \in DOMAIN vars_
        /\ vars_[root].isArray
        /\ positionsOf(root, key) # {}
        /\ ~truthy(parseInt(split(scope, ".")[2]))

sameLength(root) ==
    /\ data[root].t = "array"
    /\ errors[root].k = "arr"
    /\ Len(errors[root].a) = Len(data[root].a)

\* C3: for an array root with two or more registered keys, errorCheck('root.key')
\* leaves the error leaf of every other registered key as it was, at every
\* index.
C3_OtherKeysUntouched ==
    [][(last'.op = "errorCheck" /\ last'.fault = "" /\ last'.arg.some
         /\ isKeyScope(last'.arg.s) /\ sameLength(rootOfScope(last'.arg.s))) =>
        LET root == rootOfScope(last'.arg.s)
            key  == keyOfScope(last'.arg.s)
        IN  \A i \in 1..Len(errors[root].a) :
                \A k \in 1..Len(vars_[root].keys) :
                    vars_[root].keys[k] # key =>
                        leafIn(errors', root, i, vars_[root].keys[k])
                            = leafIn(errors, root, i, vars_[root].keys[k])]_vars

-----------------------------------------------------------------------------
(* C4 *)

\* every key of root was registered by one call
distinctKeys(root) ==
    \A i, j \in 1..Len(vars_[root].keys) :
        i # j => vars_[root].keys[i] # vars_[root].keys[j]

\* scope is 'root.i' or 'root.i.key' for an array root whose keys were each
\* registered once, an index i >= 1 of an element the live array has, and a
\* registered key
isIndexScope(scope) ==
    LET variable == split(scope, ".")
        root     == variable[1]
        key      == join(slice(variable, 2), ".")
    IN  /\ root \in DOMAIN vars_
        /\ vars_[root].isArray
        /\ distinctKeys(root)
        /\ Len(variable) > 1
        /\ truthy(parseInt(variable[2]))
        /\ parseInt(variable[2]).n >= 1
        /\ data[root].t = "array"
        /\ parseInt(variable[2]).n < Len(data[root].a)
        /\ (Len(key) > 0 => positionsOf(root, key) # {})

indexOfScope(scope) == parseInt(split(scope, ".")[2]).n

\* the keys of root, among those the scope names, whose rule-set has a
\* failing rule on element i of the live array
failingKeysAt(root, i, key) ==
    {k \in {vars_[root].keys[n] : n \in 1..Len(vars_[root].keys)} :
        /\ (Len(key) > 0 => k = key)
        /\ failingRules(ruleSetOf(root, k),
                        getPath(data[root], <<indexName(i)>> \o keySegments(k))) # {}}

\* C4: for an array root, errorCheck('root.i') and errorCheck('root.i.key') with
\* i >= 1 return the number of failing keys of element i and leave the error
\* entry of every other index as it was, also when the check has resized the
\* error array.
C4_OtherIndicesUntouched ==
    [][(last'.op = "errorCheck" /\ last'.fault = "" /\ last'.arg.some
         /\ isIndexScope(last'.arg.s)) =>
        LET scope == last'.arg.s
            root  == rootOfScope(scope)
            i     == indexOfScope(scope)
            key   == join(slice(split(scope, "."), 2), ".")
        IN  /\ last'.ret = Cardinality(failingKeysAt(root, i, key))
            /\ \A j \in 1..Len(errors[root].a) :
                  j # i + 1 =>
                      /\ j <= Len(errors'[root].a)
                      /\ errors'[root].a[j].k = errors[root].a[j].k
                      /\ errors'[root].a[j].m = errors[root].a[j].m]_vars

-----------------------------------------------------------------------------
(* C5 *)

RECURSIVE eachKeyFrom(_, _, _)
\* errorCheck('root.key') for the keys of root from the i-th on, one call
\* after the other: the tree they leave and the sum of what they return
eachKeyFrom(E, root, i) ==
    IF i > Len(vars_[root].keys) THEN Res(E, 0, "")
    ELSE LET one  == errorCheck(E, Some(pathOf(root, vars_[root].keys[i])))
             rest == eachKeyFrom(one.E, root, i + 1)
         IN  Res(rest.E, one.n + rest.n, rest.fault)

\* the last call was errorCheck with a scope below a root that is not an
\* array and has several keys, none of them the empty key
severalKeys(root) ==
    /\ root \in DOMAIN vars_
    /\ ~vars_[root].isArray
    /\ Len(vars_[root].keys) > 1
    /\ \A i \in 1..Len(vars_[root].keys) : Len(vars_[root].keys[i]) > 0

\* C5: for a non-array root with several registered keys, errorCheck('root.key')
\* leaves the error leaves of the root's other keys and the error trees of all
\* other roots as they were and counts at most the one key, while
\* errorCheck('root') returns the sum of what the checks of its keys return
\* and leaves the tree those checks leave.
C5_ScalarScopes ==
    [][(last'.op = "errorCheck" /\ last'.fault = "" /\ last'.arg.some
         /\ severalKeys(rootOfScope(last'.arg.s))) =>
        LET scope == last'.arg.s
            root  == rootOfScope(scope)
            key   == keyOfScope(scope)
            keys  == vars_[root].keys
        IN  IF Len(key) > 0
            THEN /\ DOMAIN errors' = DOMAIN errors
                 /\ \A r \in DOMAIN errors : r # root => errors'[r] = errors[r]
                 /\ \A i \in 1..Len(keys) :
                       keys[i] # key =>
                           leafAt(errors', root, keys[i]) = leafAt(errors, root, keys[i])
                 /\ last'.ret \in {0, 1}
                 /\ (last'.ret = 0) = (leafAt(errors', root, key) = <<"">>)
            ELSE /\ last'.ret = eachKeyFrom(errors, root, 1).n
                 /\ errors' = eachKeyFrom(errors, root, 1).E]_vars

\* errorCheck('l.a') found l.a failing and left the message of l.b, which has
\* become valid since its own check, in place
C5_Witness ==
    /\ Checked
    /\ last.arg.s = <<"l", ".", "a">>
    /\ last.ret = 1
    /\ severalKeys(Location)
    /\ leafAt(errors, Location, <<"b">>) = <<"Too short">>
    /\ failingRules(ruleSetOf(Location, <<"b">>), getPath(Obj(data), <<Location, <<"b">>>>)) = {}

-----------------------------------------------------------------------------
(* C6 *)

\* scope is a scope of a registered array root that holds an array
isArrayScope(scope) ==
    LET root == rootOfScope(scope)
    IN  /\ root \in DOMAIN vars_
        /\ vars_[root].isArray
        /\ data[root].t = "array"
        /\ errors[root].k = "arr"

\* the scope has the check evaluate key at entry j (1-based) of the array
covers(scope, j, key) ==
    LET variable == split(scope, ".")
    IN  IF Len(variable) = 1 THEN TRUE
        ELSE IF truthy(parseInt(variable[2]))
        THEN /\ j = parseInt(variable[2]).n + 1
             /\ (Len(variable) > 2 => key = join(slice(variable, 2), "."))
        ELSE key = join(slice(variable, 1), ".")

\* C6: when the live array of a registered array field has L' elements, any
\* check on that root leaves the error array with exactly L' entries,
\* whether that is more or fewer than before, and the slots it adds hold the
\* empty placeholder wherever the check itself does not evaluate a key.
C6_ResizeToLiveLength ==
    [][(last'.op = "errorCheck" /\ last'.fault = "" /\ last'.arg.some
         /\ isArrayScope(last'.arg.s)) =>
        LET scope == last'.arg.s
            root  == rootOfScope(scope)
            L     == Len(errors[root].a)
            keys  == vars_[root].keys
        IN  /\ Len(errors'[root].a) = Len(data[root].a)
            /\ \A j \in 1..Len(errors'[root].a) : \A k \in 1..Len(keys) :
                  (j > L /\ ~covers(scope, j, keys[k])) =>
                      leafIn(errors', root, j, keys[k]) = <<"">>]_vars

-----------------------------------------------------------------------------
(* C7 *)

\* what an error tree holds, whichever objects hold it
contentOf(E) ==
    [root \in DOMAIN E |->
        IF E[root].k = "arr"
        THEN [i \in 1..Len(E[root].a) |-> [k |-> E[root].a[i].k, m |-> E[root].a[i].m]]
        ELSE E[root].m]

\* C7: when errorCheck(path) has returned and is called again with the same
\* path, no data having changed in between, the second call returns the same
\* count and leaves the error tree with the content the first call left.
C7_Idempotent ==
    [][(last.op = "errorCheck" /\ last.fault = "" /\ last.arg.some
         /\ last'.op = "errorCheck" /\ last'.arg = last.arg) =>
        /\ last'.fault = ""
        /\ last'.ret = last.ret
        /\ contentOf(errors') = contentOf(errors)]_vars

\* errorCheck('p.1') has found element 1 of a two-element array failing, and
\* a second errorCheck('p.1') from here finds the same
C7_Witness ==
    /\ Checked
    /\ last.arg.s = <<"p", ".", "1">>
    /\ last.ret = 1
    /\ Len(errors[Players].a) = 2
    /\ errorCheck(errors, last.arg).n = 1
    /\ contentOf(errorCheck(errors, last.arg).E) = contentOf(errors)

-----------------------------------------------------------------------------
(* C8 *)

\* the last step was a registerErrorChecking that returned
Registered == last.op = "registerErrorChecking" /\ last.fault = ""

\* the rule tokens of a rule string, and the name of a token
tokensOf(rules) == split(rules, "|")

nameOf(token) == split(token, ":")[1]

\* the token at position i is the last one of its name in the rule string
lastOfItsName(tokens, i) ==
    \A j \in (i + 1)..Len(tokens) : nameOf(tokens[j]) # nameOf(tokens[i])

\* the message the i-th rule token (i counted from 0) is to get
messageFor(messages, i) ==
    IF messages.t = "string"
    THEN (IF messages.s = "" THEN "Invalid input" ELSE messages.s)
    ELSE IF Len(messages.a) = 0 THEN "Invalid input"
    ELSE IF i < Len(messages.a) THEN messages.a[i + 1]
    ELSE messages.a[Len(messages.a)]

\* C8: a registration stores for the i-th rule token of the rule string
\* 'Invalid input' when messages is empty (the empty list or the empty
\* string), the string itself when messages is one string, messages[i] when i
\* is inside the list, and the last element of the list when i is past it.
C8_MessagePerRule ==
    [][(last'.op = "registerErrorChecking" /\ last'.fault = "") =>
        LET c      == last'.arg
            path   == parseVariable(c.variable).path
            tokens == tokensOf(c.rules)
        IN  \A i \in 1..Len(tokens) :
                lastOfItsName(tokens, i) =>
                    /\ <<path, nameOf(tokens[i])>> \in DOMAIN errMsg'
                    /\ errMsg'[<<path, nameOf(tokens[i])>>] = messageFor(c.messages, i - 1)]_vars

\* 'required|alpha_num|max:18' was registered with the one message
\* ['Invalid teamname'], and the third rule has that message
C8_Witness ==
    /\ Registered
    /\ last.arg.rules = R_required \o Bar \o R_alpha_num \o Bar \o R_max \o <<":", "1", "8">>
    /\ last.arg.messages = Messages(<<"Invalid teamname">>)
    /\ errMsg[<<Team, R_max>>] = "Invalid teamname"
    /\ errMsg[<<Team, R_required>>] = "Invalid teamname"

-----------------------------------------------------------------------------
(* C9 *)

\* the stored form of an argument written as s: a number when the whole of s
\* is a number, the string s otherwise
storedAs(s) == IF isNumeric(s) THEN Num(parseNumber(s).n) ELSE Str(s)

\* the arguments a rule-set holds for the rule named name
argsOf(ruleSet, name) ==
    (CHOOSE e \in {ruleSet[i] : i \in 1..Len(ruleSet)} : e.rule = name).args

\* C9: a registration stores, for every rule other than regex, each
\* comma-separated argument that is a number in full as a number and every
\* other argument as the string it was written as.
C9_ArgumentCoercion ==
    [][(last'.op = "registerErrorChecking" /\ last'.fault = "") =>
        LET c       == last'.arg
            root    == parseVariable(c.variable).root
            tokens  == tokensOf(c.rules)
            ruleSet == vars_'[root].rules[Len(vars_'[root].rules)]
        IN  \A i \in 1..Len(tokens) :
                LET splitRule == split(tokens[i], ":")
                IN  (lastOfItsName(tokens, i) /\ Len(splitRule) > 1
                        /\ splitRule[1] # R_regex) =>
                        LET written == split(splitRule[2], ",")
                        IN  argsOf(ruleSet, splitRule[1]) =
                                Arr([j \in 1..Len(written) |-> storedAs(written[j])])]_vars

-----------------------------------------------------------------------------
(* C10 *)

\* the call c names a root that is registered with the other array status
conflicting(c) ==
    LET p == parseVariable(c.variable)
    IN  p.root \in DOMAIN vars_ /\ p.isArray # vars_[p.root].isArray

\* C10: the isArray flag of a root stays what its first registration made
\* it; a registerErrorChecking for the root with the other array status ends
\* with the ArrayConflict fault and leaves the root's keys and rule-sets, the
\* stored messages, the error tree and the observers as they were.
C10_ArrayConflict ==
    [][/\ \A root \in DOMAIN vars_ :
              root \in DOMAIN vars_' /\ vars_'[root].isArray = vars_[root].isArray
       /\ (last'.op = "registerErrorChecking" /\ conflicting(last'.arg)) =>
              /\ last'.fault = "ArrayConflict"
              /\ vars_' = vars_
              /\ rootOrder' = rootOrder
              /\ errMsg' = errMsg
              /\ errors' = errors
              /\ watchers' = watchers
              /\ watching' = watching]_vars

\* 'p.e' was refused because p is registered as an array, or 'p.*.e' because
\* p is registered as an object
C10_Witness ==
    /\ last.op = "registerErrorChecking"
    /\ last.fault = "ArrayConflict"
    /\ Players \in DOMAIN vars_
    /\ parseVariable(last.arg.variable).isArray # vars_[Players].isArray
    /\ Len(vars_[Players].keys) = 1

-----------------------------------------------------------------------------
(* C11 *)

\* the rule string holds an empty token or the name of no rule
malformed(rules) ==
    \E i \in 1..Len(tokensOf(rules)) :
        \/ tokensOf(rules)[i] = <<>>
        \/ nameOf(tokensOf(rules)[i]) \notin validRules

\* C11: a registerErrorChecking whose rule string holds an empty token or an
\* unknown rule name ends with a configuration fault and registers nothing:
\* the registration table is as before, every message already stored for a
\* (path, rule) is as before, the error tree is as before and no observer
\* was added.
C11_FaultRegistersNothing ==
    [][(last'.op = "registerErrorChecking" /\ malformed(last'.arg.rules)) =>
        /\ last'.fault \in {"InvalidRuleSyntax", "UnknownRule"}
        /\ vars_' = vars_
        /\ \A k \in DOMAIN errMsg : k \in DOMAIN errMsg' /\ errMsg'[k] = errMsg[k]
        /\ errors' = errors
        /\ watchers' = watchers /\ watching' = watching]_vars

-----------------------------------------------------------------------------
(* C12 *)

\* C12: errorCheck(scope) on a scope whose first segment is not a registered
\* root returns 1 and signals UnregisteredField, and leaves the error tree
\* and the registration table as they were.
C12_UnregisteredField ==
    [][(/\ last'.op = "errorCheck"
        /\ last'.arg.some
        /\ rootOfScope(last'.arg.s) \notin DOMAIN vars_) =>
        /\ last'.ret = 1
        /\ last'.fault = "UnregisteredField"
        /\ errors' = errors
        /\ vars_' = vars_]_vars

-----------------------------------------------------------------------------
(* C13 *)

\* scope is root.0 or root.0.key for a root registered as an array that
\* holds a live array with an element
isZeroScope(scope) ==
    /\ Len(split(scope, ".")) > 1
    /\ split(scope, ".")[2] = <<"0">>
    /\ rootOfScope(scope) \in DOMAIN vars_
    /\ vars_[rootOfScope(scope)].isArray
    /\ data[rootOfScope(scope)].t = "array"
    /\ Len(data[rootOfScope(scope)].a) > 0

\* the scope without its index: root for root.0, root.key for root.0.key
withoutIndex(scope) ==
    join(<<split(scope, ".")[1]>> \o slice(split(scope, "."), 2), ".")

\* C13: for a registered array root with a non-empty live array,
\* errorCheck('root.0') returns what errorCheck('root') returns and leaves
\* the error tree that errorCheck('root') leaves, and errorCheck('root.0.key')
\* does so for errorCheck('root.key').
C13_IndexZeroChecksAll ==
    [][(/\ last'.op = "errorCheck"
        /\ last'.arg.some
        /\ isZeroScope(last'.arg.s)
        /\ errorCheck(errors, Some(withoutIndex(last'.arg.s))).fault = "") =>
        /\ last'.fault = ""
        /\ last'.ret = errorCheck(errors, Some(withoutIndex(last'.arg.s))).n
        /\ errors' = errorCheck(errors, Some(withoutIndex(last'.arg.s))).E]_vars

-----------------------------------------------------------------------------
(* C14 *)

\* C14: manualErrorChecking(path, msg) on a path whose root is not in the
\* registration table ends without a fault and leaves at path a leaf that
\* holds msg ('' being the msg of a call that gives none); on a path whose
\* root is registered it ends with the fault AlreadyAutomated and leaves the
\* error tree as it was.
C14_ManualErrorChecking ==
    [][(last'.op = "manualErrorChecking") =>
        IF rootOfScope(last'.arg.variable) \notin DOMAIN vars_
        THEN /\ last'.fault = ""
             /\ leafAt(errors', rootOfScope(last'.arg.variable),
                       keyOfScope(last'.arg.variable)) = <<last'.arg.msg>>
        ELSE /\ last'.fault = "AlreadyAutomated"
             /\ errors' = errors]_vars

\* manualErrorChecking('t', 'Teamname taken') was called on a component
\* that has another field registered, and errors.t holds the message
C14_Witness ==
    /\ last.op = "manualErrorChecking"
    /\ last.fault = ""
    /\ last.arg.variable = Team
    /\ Location \in DOMAIN vars_
    /\ leafAt(errors, Team, <<>>) = <<"Teamname taken">>

-----------------------------------------------------------------------------
(* C15 *)

\* the error slots of root are managed manually: the error tree holds them
\* and the registration table does not hold the root
manual(root) == root \in DOMAIN errors /\ root \notin DOMAIN vars_

\* C15: no error slot is managed both manually and by the rule engine: a
\* registerErrorChecking for a root whose slots are managed manually is
\* rejected with a fault, the root stays out of the registration table and
\* the manually set messages stay as they are.
C15_NoDoubleManagement ==
    [][(/\ last'.op = "registerErrorChecking"
        /\ manual(parseVariable(last'.arg.variable).root)) =>
        /\ last'.fault # ""
        /\ parseVariable(last'.arg.variable).root \notin DOMAIN vars_'
        /\ errors' = errors]_vars

-----------------------------------------------------------------------------
(* C16 *)

\* C16: resetErrorChecking() leaves the registration table and the error
\* tree empty and no observer alive, whatever was registered before, the
\* same path registered more than once with watch = true included; a later
\* change of a value that was watched runs no check, and errorCheck()
\* returns 0.
C16_ResetCancelsAll ==
    [][(last'.op = "resetErrorChecking") =>
        /\ vars_' = <<>> /\ rootOrder' = <<>> /\ errMsg' = <<>>
        /\ errors' = <<>>
        /\ watchers' = <<>>
        /\ watching' = {}]_vars

-----------------------------------------------------------------------------
(* C17 *)

\* the tree E with every leaf blank: the same roots, the same paths below
\* every root and every array entry, and arrays of the same length
everyLeafBlank(E) ==
    [r \in DOMAIN E |->
        IF E[r].k = "obj" THEN ObjNode([q \in DOMAIN E[r].m |-> ""])
        ELSE ArrNode([i \in 1..Len(E[r].a) |->
                Entry(E[r].a[i].o, E[r].a[i].k, [q \in DOMAIN E[r].a[i].m |-> ""])])]

\* C17: clearErrors() sets every leaf of the error tree to '', the leaves
\* nested below a root included, and changes nothing else: the paths of the
\* tree, the lengths of its arrays and the registration table are as before.
C17_ClearErrors ==
    [][(last'.op = "clearErrors") =>
        /\ errors' = everyLeafBlank(errors)
        /\ vars_' = vars_ /\ rootOrder' = rootOrder /\ errMsg' = errMsg]_vars

-----------------------------------------------------------------------------
(* C18 *)

\* the paths that have a live observer
observed == {watchers[i] : i \in 1..Len(watchers)}

\* the value of the field at path in the component's data D
valueAt(D, path) == getPath(Obj(D), split(path, "."))

\* the fields of the roots that are not arrays: <<root, key>>
scalarFields ==
    {f \in UNION {{<<r, vars_[r].keys[i]>> : i \in 1..Len(vars_[r].keys)} : r \in DOMAIN vars_} :
        ~vars_[f[1]].isArray}

RECURSIVE eachPathFrom(_, _, _)
\* errorCheck(path) for the paths of a list from the i-th on, one call after
\* the other, up to the first that throws
eachPathFrom(E, paths, i) ==
    IF i > Len(paths) THEN Res(E, 0, "")
    ELSE LET one == errorCheck(E, Some(paths[i]))
         IN  IF one.fault # "" THEN one
             ELSE LET rest == eachPathFrom(one.E, paths, i + 1)
                  IN  Res(rest.E, one.n + rest.n, rest.fault)

\* a change of a value checks nothing by itself; it queues the check of
\* every observed field whose value it changed, and of no field without an
\* observer
C18_ChangeQueuesCheck ==
    (last'.op = "set") =>
        /\ errors' = errors
        /\ \A path \in observed :
               valueAt(data', path) # valueAt(data, path) =>
                   \E i \in 1..Len(pending') : pending'[i] = path
        /\ \A i \in 1..Len(pending') : pending'[i] \in observed

\* the delivery checks every queued field against the value it has now, and
\* leaves the leaf of every field without an observer as it was
C18_DeliveryChecks ==
    (last'.op = "watch") =>
        /\ last'.arg = pending /\ pending' = <<>>
        /\ errors' = eachPathFrom(errors, pending, 1).E
        /\ \A f \in scalarFields :
               (pathOf(f[1], f[2]) \notin observed /\ f[1] \notin observed) =>
                   leafAt(errors', f[1], f[2]) = leafAt(errors, f[1], f[2])

-----------------------------------------------------------------------------
(* C19 *)

\* the number of entries a registration of root.*.key is to provide: the
\* size given with the call, or the length of the live array
entriesFor(c) ==
    IF c.arraySize # 0 THEN c.arraySize
    ELSE IF data[parseVariable(c.variable).root].t = "array"
    THEN Len(data[parseVariable(c.variable).root].a)
    ELSE 0

\* the keys registered for root so far
keysOf(root) ==
    IF root \in DOMAIN vars_ THEN {vars_[root].keys[i] : i \in 1..Len(vars_[root].keys)}
    ELSE {}

\* C19: after registerErrorChecking('root.*.key', ...) the error array of
\* root has at least n entries, n being the size given with the call or else
\* the length of the live array; every entry below n holds '' at key; and
\* every leaf that an entry held at another registered key, a key that
\* shares a leading segment with key included, holds the value it had.
C19_ArrayRegistration ==
    [][(/\ last'.op = "registerErrorChecking"
        /\ last'.fault = ""
        /\ parseVariable(last'.arg.variable).isArray
        /\ Len(parseVariable(last'.arg.variable).key) > 0) =>
        LET root == parseVariable(last'.arg.variable).root
            key  == parseVariable(last'.arg.variable).key
            n    == entriesFor(last'.arg)
        IN  /\ root \in DOMAIN errors' /\ errors'[root].k = "arr"
            /\ Len(errors'[root].a) >= n
            /\ \A i \in 1..n : leafIn(errors', root, i, key) = <<"">>
            /\ \A other \in keysOf(root) \ {key} :
                   \A i \in 1..(IF root \in DOMAIN errors THEN Len(errors[root].a) ELSE 0) :
                       leafIn(errors, root, i, other) # <<>> =>
                           leafIn(errors', root, i, other) = leafIn(errors, root, i, other)]_vars

-----------------------------------------------------------------------------
(* C20 *)

\* the rule cannot measure the value: required on an object or on null;
\* max, min and size on a boolean or on undefined
unmeasurable(rule, v) ==
    \/ rule = R_required /\ v.t \in {"object", "array", "null"}
    \/ rule \in {R_max, R_min, R_size} /\ v.t \in {"boolean", "undefined"}

\* C20: when the check of a field comes to evaluate required, max, min or
\* size on a value of a type the rule cannot measure, it ends with the fault
\* UncertainInput, which names the field and the rule that was being
\* evaluated; no count is returned and no message is written for the field.
C20_UncertainInput ==
    [][(/\ last'.op = "errorCheck"
        /\ isScalarField(last'.arg.s)
        /\ failingRules(ruleSetOf(rootOfScope(last'.arg.s), keyOfScope(last'.arg.s)),
                        valueAt(data, last'.arg.s)) # {}
        /\ LET rules == ruleSetOf(rootOfScope(last'.arg.s), keyOfScope(last'.arg.s))
               value == valueAt(data, last'.arg.s)
           IN  unmeasurable(rules[least(failingRules(rules, value))].rule, value)) =>
        LET scope == last'.arg.s
            rules == ruleSetOf(rootOfScope(scope), keyOfScope(scope))
            value == valueAt(data, scope)
        IN  /\ last'.fault = "UncertainInput"
            /\ last'.path = scope
            /\ last'.method = rules[least(failingRules(rules, value))].rule
            /\ last'.ret = 0
            /\ leafAt(errors', rootOfScope(scope), keyOfScope(scope))
                   \in {leafAt(errors, rootOfScope(scope), keyOfScope(scope)), <<"">>}]_vars

-----------------------------------------------------------------------------
(* C21 *)

\* the rule-set of the field is the one rule named rule
onlyRule(scope, rule) ==
    /\ isScalarField(scope)
    /\ Len(ruleSetOf(rootOfScope(scope), keyOfScope(scope))) = 1
    /\ ruleSetOf(rootOfScope(scope), keyOfScope(scope))[1].rule = rule

\* some element of the argument list is loosely equal to the value
looselyIn(args, v) == \E i \in 1..Len(args.a) : looseEq(v, args.a[i])

\* C21: the in rule passes if and only if some element of its argument list
\* is loosely equal to the value, with the loose equality of the equals
\* rule: the check of a field whose one rule is in returns 0 and leaves the
\* leaf '' exactly when the value is loosely equal to an element of the list.
C21_InIsLooseMembership ==
    [][(/\ last'.op = "errorCheck" /\ last'.fault = "" /\ last'.arg.some
        /\ onlyRule(last'.arg.s, R_in)
        /\ valueAt(data, last'.arg.s).t \in {"string", "number"}) =>
        LET scope == last'.arg.s
            args  == ruleSetOf(rootOfScope(scope), keyOfScope(scope))[1].args
            value == valueAt(data, scope)
        IN  /\ (last'.ret = 0) = looselyIn(args, value)
            /\ (leafAt(errors', rootOfScope(scope), keyOfScope(scope)) = <<"">>)
                   = looselyIn(args, value)
            /\ in_(value, args).r = "pass" <=> \E i \in 1..Len(args.a) :
                   equals_(value, Arr(<<args.a[i]>>)).r = "pass"]_vars

-----------------------------------------------------------------------------
(* C22 *)

\* C22: in every reachable state the keys registered under one root are
\* pairwise distinct, also after the same path was registered a second
\* time, so that every registered rule-set is the one its key resolves to.
C22_KeysUnique ==
    \A root \in DOMAIN vars_ :
        \A i \in 1..Len(vars_[root].keys) :
            /\ \A j \in 1..Len(vars_[root].keys) :
                   vars_[root].keys[j] = vars_[root].keys[i] => j = i
            /\ indexOf(vars_[root].keys, vars_[root].keys[i]) = i - 1

-----------------------------------------------------------------------------
(* C23 *)

\* the rule-set parsed from the rule string of the call c
parsedBy(c) ==
    addRules(errMsg, parseVariable(c.variable).path, c.rules, c.messages).rules

\* the entries a root has keep their place and their content in V
entriesKept(root, V) ==
    /\ root \in DOMAIN V
    /\ Len(V[root].keys) >= Len(vars_[root].keys)
    /\ Len(V[root].rules) >= Len(vars_[root].rules)
    /\ \A i \in 1..Len(vars_[root].keys) : V[root].keys[i] = vars_[root].keys[i]
    /\ \A i \in 1..Len(vars_[root].rules) : V[root].rules[i] = vars_[root].rules[i]

\* C23: for every registered root the keys list and the rules list have the
\* same length and rules[i] is the rule-set parsed in the registration that
\* supplied keys[i]: a registration for the root appends its key and its
\* rule-set at the same position and changes no existing entry, and no
\* entry is removed except by resetErrorChecking.
C23_KeysAndRulesCorrespond ==
    [][/\ \A root \in DOMAIN vars_' : Len(vars_'[root].keys) = Len(vars_'[root].rules)
       /\ (last'.op # "resetErrorChecking") =>
              \A root \in DOMAIN vars_ : entriesKept(root, vars_')
       /\ (last'.op \notin {"registerErrorChecking", "resetErrorChecking"}) => vars_' = vars_
       /\ (last'.op = "registerErrorChecking" /\ last'.fault = "") =>
              LET p   == parseVariable(last'.arg.variable)
                  old == IF p.root \in DOMAIN vars_ THEN Len(vars_[p.root].keys) ELSE 0
              IN  /\ \A root \in DOMAIN vars_' \ {p.root} :
                         root \in DOMAIN vars_ /\ vars_'[root] = vars_[root]
                  /\ Len(vars_'[p.root].keys) = old + 1
                  /\ vars_'[p.root].keys[old + 1] = p.key
                  /\ vars_'[p.root].rules[old + 1] = parsedBy(last'.arg)
       /\ (last'.op = "registerErrorChecking" /\ last'.fault # "") =>
              \A root \in DOMAIN vars_' :
                  root \in DOMAIN vars_ /\ vars_'[root] = vars_[root]]_vars

\* l.b was registered with min:2 after l.a with required|size:2: the second
\* key of l is b, and the second rule-set of l is the one of min:2
C23_Witness ==
    /\ Registered
    /\ last.arg.variable = <<"l", ".", "b">>
    /\ vars_[Location].keys = <<<<"a">>, <<"b">>>>
    /\ Len(vars_[Location].rules) = 2
    /\ vars_[Location].rules[2] = <<[rule |-> R_min, args |-> Arr(<<Num(2)>>)]>>
    /\ vars_[Location].rules[1][1].rule = R_required

-----------------------------------------------------------------------------
(* C24 *)

\* root was registered as an array while its live array was empty, and its
\* error array has had no entry since; the live array has elements now
grownFromEmpty(root) ==
    /\ root \in DOMAIN vars_
    /\ vars_[root].isArray
    /\ root \in DOMAIN errors
    /\ errors[root] = ArrNode(<<>>)
    /\ data[root].t = "array"
    /\ Len(data[root].a) > 0

\* C24: when an array field was registered while its live array was empty
\* and the array has grown to n > 0 elements, errorCheck(root) ends without
\* a fault, leaves the error array with n entries that hold a leaf at every
\* registered key, and the leaf holds a message at exactly the indices
\* whose element fails the rule-set of the key.
C24_GrowFromEmpty ==
    [][(/\ last'.op = "errorCheck"
        /\ last'.arg.some
        /\ Len(split(last'.arg.s, ".")) = 1
        /\ grownFromEmpty(last'.arg.s)) =>
        LET root == last'.arg.s
            n    == Len(data[root].a)
        IN  /\ last'.fault = ""
            /\ errors'[root].k = "arr"
            /\ Len(errors'[root].a) = n
            /\ \A i \in 1..n : \A key \in keysOf(root) :
                   /\ leafIn(errors', root, i, key) # <<>>
                   /\ (leafIn(errors', root, i, key) # <<"">>)
                          = (failingKeysAt(root, i - 1, key) # {})]_vars

-----------------------------------------------------------------------------
(* C25 *)

\* errorCheck(a) followed by errorCheck(b) from the tree E: what the two
\* calls return or throw, and what the tree holds in the end
inTurn(E, a, b) ==
    LET first  == errorCheck(E, Some(a))
        second == errorCheck(first.E, Some(b))
    IN  [of |-> (a :> [n |-> first.n, fault |-> first.fault])
                @@ (b :> [n |-> second.n, fault |-> second.fault]),
         tree |-> contentOf(second.E)]

\* C25: checks on two different registered roots are independent and
\* commute: errorCheck(a) followed by errorCheck(b) and errorCheck(b)
\* followed by errorCheck(a) end with the same error tree and the same two
\* counts.
C25_ChecksCommute ==
    [][(last'.op = "errorCheck" /\ last'.arg.some) =>
        \A a, b \in DOMAIN vars_ :
            (a # b /\ last'.arg.s = a) => inTurn(errors, a, b) = inTurn(errors, b, a)]_vars

-----------------------------------------------------------------------------
(* C26 *)

\* the segments of a path
segmentsOf(path) == split(path, ".")

\* the segments from the n-th on, joined by '.'
joinedFrom(segs, n) == join(SubSeq(segs, n, Len(segs)), ".")

\* the root, the array status and the key that a path stands for
decomposed(path) ==
    IF Len(segmentsOf(path)) = 1
    THEN [root |-> path, isArray |-> FALSE, key |-> <<>>]
    ELSE IF segmentsOf(path)[2] = <<"*">>
    THEN [root |-> segmentsOf(path)[1], isArray |-> TRUE,
          key |-> joinedFrom(segmentsOf(path), 3)]
    ELSE [root |-> segmentsOf(path)[1], isArray |-> FALSE,
          key |-> joinedFrom(segmentsOf(path), 2)]

\* C26: registerErrorChecking decomposes its path: one segment gives the
\* root the path, isArray false and the key ''; a second segment '*' gives
\* the root the first segment, isArray true and the key the segments after
\* '*' joined by '.'; any other path gives the root the first segment,
\* isArray false and the key all segments after the first joined by '.'.
\* A registration that returns has listed that key last under that root,
\* whose array status is that isArray.
C26_PathDecomposition ==
    [][(last'.op = "registerErrorChecking" /\ last'.fault = "") =>
        LET d == decomposed(last'.arg.variable)
        IN  /\ d.root \in DOMAIN vars_'
            /\ vars_'[d.root].isArray = d.isArray
            /\ vars_'[d.root].keys[Len(vars_'[d.root].keys)] = d.key
            /\ \A root \in DOMAIN vars_' \ {d.root} : root \in DOMAIN vars_
            /\ (d.root \in DOMAIN vars_ =>
                   Len(vars_'[d.root].keys) = Len(vars_[d.root].keys) + 1)]_vars

\* 'p.*.n.f' was registered after 'p.*': p is an array root with the keys ''
\* and 'n.f'
C26_Witness ==
    /\ Registered
    /\ last.arg.variable = <<"p", ".", "*", ".", "n", ".", "f">>
    /\ vars_[Players].isArray
    /\ vars_[Players].keys = <<<<>>, <<"n", ".", "f">>>>
    /\ Location \in DOMAIN vars_
    /\ vars_[Location].keys = <<<<"a", ".", "b">>>>
    /\ ~vars_[Location].isArray

-----------------------------------------------------------------------------
(* C27 *)

\* the position of the first ':' of a token, 0 when it has none
firstColon(token) ==
    IF \E i \in 1..Len(token) : token[i] = ":"
    THEN CHOOSE i \in 1..Len(token) :
            token[i] = ":" /\ \A j \in 1..(i - 1) : token[j] # ":"
    ELSE 0

\* the text before the first ':' (the whole token when it has none), and
\* the text after it
nameBefore(token) ==
    IF firstColon(token) = 0 THEN token ELSE SubSeq(token, 1, firstColon(token) - 1)

rawAfter(token) == SubSeq(token, firstColon(token) + 1, Len(token))

\* the pieces of a text between its commas
RECURSIVE piecesOf(_)
piecesOf(text) ==
    IF \E i \in 1..Len(text) : text[i] = ","
    THEN LET c == CHOOSE i \in 1..Len(text) :
                     text[i] = "," /\ \A j \in 1..(i - 1) : text[j] # ","
         IN  <<SubSeq(text, 1, c - 1)>> \o piecesOf(SubSeq(text, c + 1, Len(text)))
    ELSE <<text>>

\* the stored argument stands for the piece written: the piece itself, or
\* the number it starts with
standsFor(arg, piece) ==
    \/ arg = Str(piece)
    \/ ~parseFloat(piece).nan /\ arg = Num(parseFloat(piece).n)

\* C27: for each rule token the name is the text before the token's first
\* ':' and the raw argument string is everything after that first ':',
\* further ':' characters included; for regex the raw argument string is
\* stored verbatim, for every other rule it is split on ',' and one
\* argument is stored per piece; a token without ':' stores an empty list.
C27_TokenArguments ==
    [][(last'.op = "registerErrorChecking" /\ last'.fault = "") =>
        LET c       == last'.arg
            root    == parseVariable(c.variable).root
            tokens  == tokensOf(c.rules)
            ruleSet == vars_'[root].rules[Len(vars_'[root].rules)]
        IN  \A i \in 1..Len(tokens) :
                lastOfItsName(tokens, i) =>
                    /\ \E k \in 1..Len(ruleSet) : ruleSet[k].rule = nameBefore(tokens[i])
                    /\ LET stored == argsOf(ruleSet, nameBefore(tokens[i]))
                           pieces == piecesOf(rawAfter(tokens[i]))
                       IN  IF firstColon(tokens[i]) = 0 THEN stored = Arr(<<>>)
                           ELSE IF nameBefore(tokens[i]) = R_regex
                           THEN stored = Str(rawAfter(tokens[i]))
                           ELSE /\ stored.t = "array"
                                /\ Len(stored.a) = Len(pieces)
                                /\ \A j \in 1..Len(pieces) :
                                       standsFor(stored.a[j], pieces[j])]_vars

-----------------------------------------------------------------------------
(* C28 *)

\* the key that a scope of a registered root names: what follows the root,
\* without the index for a root registered as an array
namedKey(scope) ==
    LET variable == split(scope, ".")
    IN  IF vars_[variable[1]].isArray /\ Len(variable) > 1 /\ truthy(parseInt(variable[2]))
        THEN join(slice(variable, 2), ".")
        ELSE join(slice(variable, 1), ".")

\* the scope names a key that was never registered under its registered root
unregisteredKey(scope) ==
    /\ rootOfScope(scope) \in DOMAIN vars_
    /\ Len(namedKey(scope)) > 0
    /\ namedKey(scope) \notin keysOf(rootOfScope(scope))

\* the live array of an array root has another length than its error array
lengthsDiffer(root) ==
    /\ data[root].t = "array"
    /\ errors[root].k = "arr"
    /\ Len(data[root].a) # Len(errors[root].a)

\* C28: errorCheck on a registered root with a key that was never
\* registered under it ends with the fault UnregisteredKey and leaves the
\* error tree exactly as it was before the call, for roots that are not
\* arrays and for array roots whose live array has another length than the
\* error array.
C28_UnregisteredKey ==
    [][(/\ last'.op = "errorCheck" /\ last'.arg.some /\ unregisteredKey(last'.arg.s)
        /\ (vars_[rootOfScope(last'.arg.s)].isArray => lengthsDiffer(rootOfScope(last'.arg.s)))) =>
        /\ last'.fault = "UnregisteredKey"
        /\ errors' = errors]_vars

-----------------------------------------------------------------------------
(* C29 *)

\* the locations that errorCheck(scope) checks: <<0, key>> for a key of a
\* root that is not an array, <<j, key>> for a key at entry j (1-based) of
\* an array root with a live element there
locationsIn(scope) ==
    LET root == rootOfScope(scope)
    IN  IF vars_[root].isArray
        THEN {loc \in (1..MaxLen) \X keysOf(root) :
                 /\ data[root].t = "array"
                 /\ loc[1] <= Len(data[root].a)
                 /\ covers(scope, loc[1], loc[2])}
        ELSE {loc \in {0} \X keysOf(root) :
                 Len(keyOfScope(scope)) > 0 => loc[2] = keyOfScope(scope)}

\* the leaf of the tree E at a location of root
leafOf(E, root, loc) ==
    IF loc[1] = 0 THEN leafAt(E, root, loc[2]) ELSE leafIn(E, root, loc[1], loc[2])

\* C29: whenever errorCheck(scope) returns n without a fault, exactly n of
\* the error leaves inside the scope, one per checked key and checked index,
\* are non-empty in the resulting error tree, and n is at most the number
\* of locations in the scope.
C29_CountIsNonEmptyLeaves ==
    [][(/\ last'.op = "errorCheck" /\ last'.fault = "" /\ last'.arg.some
        /\ rootOfScope(last'.arg.s) \in DOMAIN vars_
        /\ distinctKeys(rootOfScope(last'.arg.s))) =>
        LET scope == last'.arg.s
            root  == rootOfScope(scope)
        IN  /\ last'.ret = Cardinality({loc \in locationsIn(scope) :
                                           leafOf(errors', root, loc) \notin {<<>>, <<"">>}})
            /\ last'.ret <= Cardinality(locationsIn(scope))]_vars

-----------------------------------------------------------------------------
(* C30 *)

\* C30: in every state reachable by registrations, data mutations and
\* checks, each entry of the error array of an array root holds a string
\* leaf at every key registered under that root.
C30_EveryKeyHasItsLeaf ==
    \A root \in DOMAIN vars_ :
        (vars_[root].isArray /\ root \in DOMAIN errors /\ errors[root].k = "arr") =>
            \A i \in 1..Len(errors[root].a) :
                \A key \in keysOf(root) :
                    Len(key) > 0 => leafIn(errors, root, i, key) # <<>>

====
